---------------------------- MODULE Spec2Model ----------------------------
(***************************************************************************)
(* A model of the photo watermark tool: the position resolver, the         *)
(* compositor, the exporter (save_image / batch_process), the output       *)
(* naming of the file manager, the export handlers of the GUI, the         *)
(* template manager, the font resolution and the text renderer.            *)
(*                                                                         *)
(* Images are small pixel grids.  A pixel is a pair <<c, a>>: c stands for *)
(* each colour band (PIL treats the bands alike) and a is the alpha band.  *)
(* Paths are sequences of tokens: "/" separates directories, "." is a dot, *)
(* every other token is a run of characters holding neither.               *)
(***************************************************************************)
EXTENDS Integers, Sequences, FiniteSets, TLC

VARIABLES
    \* the position of the call under way: "call" before it runs, "done" after
    pc,
    \* calculate_position: the call's arguments and its return value
    posArgs, posResult,
    \* apply_watermark: the image objects on the heap (an object is its index),
    \* the call's arguments and its outcome
    heap, applyCall, applyOut,
    \* the files on disk: a function from paths to file contents
    disk,
    \* save_image: the call's arguments and its return value
    saveCall, saveOut,
    \* file naming: the call's arguments and the names built
    nameArgs, nameOut,
    \* batch_process: the job, the loop index, the list returned, the inputs
    \* load_image was called for
    job, bpIdx, results, attempted,
    \* the GUI's export handlers: the file manager's state and the export's trace
    gui,
    \* the template manager: its templates (in memory and on file), the call
    \* under way and what it returned
    tm, tmCall, tmOut,
    \* get_font / get_chinese_font: the call's arguments (the font files of
    \* the machine among them) and its outcome
    fontCall, fontOut,
    \* create_text_watermark: the call's arguments (the machine's font files
    \* and the rasteriser's glyph size among them) and what it produced
    textCall, textOut,
    \* create_image_watermark: the call's arguments, the layer decoded from
    \* the watermark file and the layer returned
    imgWm,
    \* apply_watermark called with two configurations on one photo
    variant,
    \* apply_watermark applied to a photo and again to its own result
    twice,
    \* load_image: the call's argument, the files opened, what it returned
    loadCall,
    \* DragDropHandler: the mechanisms tried by the constructor and the
    \* attributes of the handler built
    dnd,
    \* FileManager: imported_files and the last call with its return value
    fm,
    \* the paths of one export: the settings, the paths tested for existence
    \* and the paths written
    expo

posVars == <<posArgs, posResult>>
applyVars == <<heap, applyCall, applyOut>>
saveVars == <<saveCall, saveOut>>
nameVars == <<nameArgs, nameOut>>
batchVars == <<job, bpIdx, results, attempted>>
guiVars == <<gui>>
templateVars == <<tm, tmCall, tmOut>>
fontVars == <<fontCall, fontOut>>
textVars == <<textCall, textOut>>
restVars == <<imgWm, variant, twice, loadCall, dnd, fm, expo>>
\* the variables of the parts modelled first
firstVars == <<posVars, applyVars, disk, saveVars, nameVars, batchVars, guiVars,
               templateVars, fontVars, textVars>>
vars == <<pc, posVars, applyVars, disk, saveVars, nameVars, batchVars, guiVars,
          templateVars, fontVars, textVars, restVars>>

-----------------------------------------------------------------------------
(* Bounds of the model *)

MaxCanvas == 3
MaxLayer == 4
MaxMargin == 1
MaxPhoto == 2
MaxWm == 2
MaxPathLen == 4
MaxBatch == 3
MaxMissing == 1
MaxFontFiles == 2
MaxGlyph == 2
MaxSelection == 2

\* Custom coordinates tried: left of the canvas, inside it, beyond it.
CustomCoords == {-2, 0, 5}

-----------------------------------------------------------------------------
(* WatermarkPosition, WatermarkType, WatermarkConfig *)

NamedPositions ==
    {"top_left", "top_center", "top_right",
     "center_left", "center", "center_right",
     "bottom_left", "bottom_center", "bottom_right"}

WatermarkPosition == NamedPositions \cup {"custom"}

WatermarkType == {"text", "image"}

\* WatermarkConfig.__init__: the value of every field after construction.
WatermarkConfig ==
    [watermark_type |-> "text",
     position |-> "bottom_right",
     opacity |-> 50,
     rotation |-> 0,
     custom_x |-> 0,
     custom_y |-> 0,
     text |-> "Watermark",
     font_family |-> "Arial",
     font_size |-> 36,
     font_bold |-> FALSE,
     font_italic |-> FALSE,
     text_color |-> <<255, 255, 255>>,
     stroke_width |-> 2,
     stroke_color |-> <<0, 0, 0>>,
     shadow_offset |-> <<2, 2>>,
     shadow_color |-> <<0, 0, 0>>,
     watermark_image_path |-> <<>>,
     scale_factor |-> 10,       \* in tenths: 1.0
     margin_x |-> 20,
     margin_y |-> 20]

-----------------------------------------------------------------------------
(* ImageProcessor.calculate_position *)

\* Python's // : the floor of the quotient (TLA+'s \div floors as well).
FloorDiv(a, b) == a \div b

\* The quotient rounded toward zero (what // is not, below zero).
TruncDiv(a, b) == IF a >= 0 THEN a \div b ELSE -((-a) \div b)

\* The positions dictionary built at lines 331-365.
PositionsDict(img_width, img_height, wm_width, wm_height, config) ==
    [p \in NamedPositions |->
        CASE p = "top_left" -> <<config.margin_x, config.margin_y>>
          [] p = "top_center" ->
                <<FloorDiv(img_width - wm_width, 2), config.margin_y>>
          [] p = "top_right" ->
                <<img_width - wm_width - config.margin_x, config.margin_y>>
          [] p = "center_left" ->
                <<config.margin_x, FloorDiv(img_height - wm_height, 2)>>
          [] p = "center" ->
                <<FloorDiv(img_width - wm_width, 2),
                  FloorDiv(img_height - wm_height, 2)>>
          [] p = "center_right" ->
                <<img_width - wm_width - config.margin_x,
                  FloorDiv(img_height - wm_height, 2)>>
          [] p = "bottom_left" ->
                <<config.margin_x, img_height - wm_height - config.margin_y>>
          [] p = "bottom_center" ->
                <<FloorDiv(img_width - wm_width, 2),
                  img_height - wm_height - config.margin_y>>
          [] p = "bottom_right" ->
                <<img_width - wm_width - config.margin_x,
                  img_height - wm_height - config.margin_y>>]

\* A slip: the far edge forgets the margin.
PositionsDictNoFarMargin(img_width, img_height, wm_width, wm_height, config) ==
    LET c == [config EXCEPT !.margin_x = 0, !.margin_y = 0]
        far == [p \in NamedPositions |->
                    <<p \in {"top_right", "center_right", "bottom_right"},
                      p \in {"bottom_left", "bottom_center", "bottom_right"}>>]
        d == PositionsDict(img_width, img_height, wm_width, wm_height, config)
        d0 == PositionsDict(img_width, img_height, wm_width, wm_height, c)
    IN  [p \in NamedPositions |->
            <<IF far[p][1] THEN d0[p][1] ELSE d[p][1],
              IF far[p][2] THEN d0[p][2] ELSE d[p][2]>>]

\* A slip: every coordinate is clamped into the canvas.
PositionsDictClamped(img_width, img_height, wm_width, wm_height, config) ==
    LET d == PositionsDict(img_width, img_height, wm_width, wm_height, config)
        Max0(v) == IF v < 0 THEN 0 ELSE v
    IN  [p \in NamedPositions |-> <<Max0(d[p][1]), Max0(d[p][2])>>]

\* The dictionary calculate_position looks the anchor up in.
Positions(img_width, img_height, wm_width, wm_height, config) ==
    PositionsDict(img_width, img_height, wm_width, wm_height, config)

\* A slip: the margins are added to the custom coordinate as well.
CalculatePositionAddsMargin(image_size, watermark_size, config) ==
    IF config.position = "custom"
    THEN <<config.custom_x + config.margin_x, config.custom_y + config.margin_y>>
    ELSE Positions(image_size[1], image_size[2],
                   watermark_size[1], watermark_size[2], config)[config.position]

CalculatePosition(image_size, watermark_size, config) ==
    LET img_width == image_size[1]
        img_height == image_size[2]
        wm_width == watermark_size[1]
        wm_height == watermark_size[2]
    IN  IF config.position = "custom"
        THEN <<config.custom_x, config.custom_y>>
        ELSE LET positions == Positions(img_width, img_height,
                                        wm_width, wm_height, config)
             IN  IF config.position \in DOMAIN positions
                 THEN positions[config.position]
                 ELSE <<config.margin_x, config.margin_y>>

\* The configurations the position resolver is called with.
PosConfigs ==
    { [WatermarkConfig EXCEPT !.position = p, !.margin_x = mx, !.margin_y = my,
                              !.custom_x = cx, !.custom_y = cy] :
        p \in WatermarkPosition, mx \in 0..MaxMargin, my \in 0..MaxMargin,
        cx \in CustomCoords, cy \in CustomCoords }

NoPosArgs ==
    [image_size |-> <<1, 1>>, watermark_size |-> <<1, 1>>, config |-> WatermarkConfig]

PosInit ==
    /\ posArgs \in [image_size : (1..MaxCanvas) \X (1..MaxCanvas),
                    watermark_size : (1..MaxLayer) \X (1..MaxLayer),
                    config : PosConfigs]
    /\ posResult = <<0, 0>>

PosIdle ==
    /\ posArgs = NoPosArgs
    /\ posResult = <<0, 0>>

CallCalculatePosition ==
    /\ pc = "call"
    /\ posResult' = CalculatePosition(posArgs.image_size, posArgs.watermark_size,
                                      posArgs.config)
    /\ pc' = "done"
    /\ UNCHANGED posArgs

-----------------------------------------------------------------------------
(* Claims about calculate_position *)

\* The edge an anchor names on each axis: <<x, y>>.
AnchorKind(p) ==
    <<CASE p \in {"top_left", "center_left", "bottom_left"} -> "near"
        [] p \in {"top_center", "center", "bottom_center"} -> "center"
        [] p \in {"top_right", "center_right", "bottom_right"} -> "far",
      CASE p \in {"top_left", "top_center", "top_right"} -> "near"
        [] p \in {"center_left", "center", "center_right"} -> "center"
        [] p \in {"bottom_left", "bottom_center", "bottom_right"} -> "far">>

\* v is the floor of d/2.
IsFloorHalf(v, d) == 2 * v <= d /\ d < 2 * v + 2

AxisAsSpecified(kind, canvas, layer, margin, v) ==
    CASE kind = "near" -> v = margin
      [] kind = "far" -> v = canvas - layer - margin
      [] kind = "center" -> IsFloorHalf(v, canvas - layer)

PosDoneNamed == pc = "done" /\ posArgs.config.position \in NamedPositions

\* C1: for each of the nine named anchors, calculate_position returns per axis
\* margin for a near edge, canvas - layer - margin for a far edge and
\* floor((canvas - layer)/2) for the centre; the anchor's name selects the pair.
C1_NamedAnchorsPerAxis ==
    PosDoneNamed =>
        LET a == posArgs
            k == AnchorKind(a.config.position)
        IN  /\ AxisAsSpecified(k[1], a.image_size[1], a.watermark_size[1],
                               a.config.margin_x, posResult[1])
            /\ AxisAsSpecified(k[2], a.image_size[2], a.watermark_size[2],
                               a.config.margin_y, posResult[2])

\* A far edge on x with a margin, the centre on y with an odd negative difference.
C1_Witness ==
    /\ pc = "done"
    /\ posArgs.config.position = "center_right"
    /\ posArgs.config.margin_x = 1
    /\ posArgs.image_size = <<3, 1>>
    /\ posArgs.watermark_size = <<1, 4>>
    /\ posResult = <<1, -2>>

\* C2: with position CUSTOM calculate_position returns exactly
\* (custom_x, custom_y), whatever the canvas, the layer and the margins are,
\* also when the layer then lies outside the canvas.
C2_CustomVerbatim ==
    (pc = "done" /\ posArgs.config.position = "custom") =>
        posResult = <<posArgs.config.custom_x, posArgs.config.custom_y>>

\* A custom coordinate left of the canvas on x and beyond it on y, margins set.
C2_Witness ==
    /\ pc = "done"
    /\ posArgs.config.position = "custom"
    /\ posArgs.config.custom_x < 0
    /\ posArgs.config.custom_y >= posArgs.image_size[2]
    /\ posArgs.config.margin_x > 0
    /\ posArgs.config.margin_y > 0
    /\ posResult = <<-2, 5>>

\* C3 as stated: a far-edge coordinate is negative whenever the layer is larger
\* than the canvas minus the margin, and the centre coordinate is
\* (canvas - layer)/2 rounded toward zero.
AxisUnclampedTruncating(kind, canvas, layer, margin, v) ==
    /\ (kind = "far" /\ layer > canvas - margin) => v < 0
    /\ kind = "center" => v = TruncDiv(canvas - layer, 2)

C3_Original_TruncatingCenter ==
    PosDoneNamed =>
        LET a == posArgs
            k == AnchorKind(a.config.position)
        IN  /\ AxisUnclampedTruncating(k[1], a.image_size[1], a.watermark_size[1],
                                       a.config.margin_x, posResult[1])
            /\ AxisUnclampedTruncating(k[2], a.image_size[2], a.watermark_size[2],
                                       a.config.margin_y, posResult[2])

AxisUnclampedFlooring(kind, canvas, layer, margin, v) ==
    /\ (kind = "far" /\ layer > canvas - margin) => v < 0
    /\ kind = "center" =>
            /\ IsFloorHalf(v, canvas - layer)
            /\ layer > canvas => v < 0

\* C3 (amended): no clamping is applied to named anchors: a far-edge coordinate
\* is negative whenever the layer is larger than the canvas minus the margin,
\* and the centre coordinate is the floor of (canvas - layer)/2, negative
\* whenever the layer is larger than the canvas.
C3_NoClampingFloorCenter ==
    PosDoneNamed =>
        LET a == posArgs
            k == AnchorKind(a.config.position)
        IN  /\ AxisUnclampedFlooring(k[1], a.image_size[1], a.watermark_size[1],
                                     a.config.margin_x, posResult[1])
            /\ AxisUnclampedFlooring(k[2], a.image_size[2], a.watermark_size[2],
                                     a.config.margin_y, posResult[2])

\* The layer overflows a far edge on x and the centre on y by an odd amount.
C3_Witness ==
    /\ pc = "done"
    /\ posArgs.config.position = "center_right"
    /\ posArgs.image_size = <<2, 1>>
    /\ posArgs.watermark_size = <<2, 4>>
    /\ posArgs.config.margin_x = 1
    /\ posResult = <<-1, -2>>

-----------------------------------------------------------------------------
(* Images and the compositing primitive (PIL's Image.paste with a mask) *)

\* An image of w x h pixels in two alternating pixel values.
MkImage(mode, w, h, p1, p2) ==
    [mode |-> mode, size |-> <<w, h>>,
     px |-> [xy \in (1..w) \X (1..h) |->
                IF (xy[1] + xy[2]) % 2 = 0 THEN p1 ELSE p2]]

\* A slip: the weighted sum is cut by a shift, not divided by 255.
Blend8Shifted(mask, in1, in2) == (in1 * (255 - mask) + in2 * mask) \div 256

\* PIL's BLEND8: in1 * (255 - mask) + in2 * mask, divided by 255 and rounded.
Blend8(mask, in1, in2) ==
    LET t == in1 * (255 - mask) + in2 * mask + 128
    IN  ((t \div 256) + t) \div 256

\* One pixel of paste(src, box, mask = src): every band of the target is
\* blended with the source's, weighted by the source's alpha.
BlendPixel(mode, d, s) ==
    <<Blend8(s[2], d[1], s[1]),
      IF mode = "RGBA" THEN Blend8(s[2], d[2], s[2]) ELSE 255>>

\* dest.paste(src, position, src): the layer's top-left pixel goes to
\* position (0-based); what falls outside the target is cropped.
Paste(dest, src, position) ==
    [dest EXCEPT !.px =
        [xy \in DOMAIN dest.px |->
            LET lx == xy[1] - position[1]
                ly == xy[2] - position[2]
            IN  IF lx \in 1..src.size[1] /\ ly \in 1..src.size[2]
                THEN BlendPixel(dest.mode, dest.px[xy], src.px[<<lx, ly>>])
                ELSE dest.px[xy]]]

\* The photos tried: opaque two-colour checkerboards, and for RGBA one with a
\* half-transparent colour.
Photos ==
    { MkImage(m, w, h, <<255, 255>>, <<c, 255>>) :
        m \in {"RGB", "RGBA"}, w \in 1..MaxPhoto, h \in 1..MaxPhoto, c \in {0, 128} }
    \cup
    { MkImage("RGBA", w, h, <<255, 128>>, <<0, 255>>) :
        w \in 1..MaxPhoto, h \in 1..MaxPhoto }

\* The pixel patterns of the watermark layers tried: opaque, half-transparent
\* over transparent, and fully transparent.
LayerPatterns ==
    { <<<<0, 255>>, <<0, 255>>>>,
      <<<<0, 128>>, <<255, 0>>>>,
      <<<<255, 0>>, <<255, 0>>>> }

LayersOfSize(w, h) == { MkImage("RGBA", w, h, p[1], p[2]) : p \in LayerPatterns }

\* The layers a renderer or a decoder may produce.
Layers == UNION { LayersOfSize(w, h) : w \in 1..MaxWm, h \in 1..MaxWm }

-----------------------------------------------------------------------------
(* ImageProcessor.create_text_watermark, create_image_watermark *)

\* An optional layer is a sequence: <<>> is None, <<l>> is the layer l.
NoLayer == <<>>

\* A slip: every alpha value is replaced by the configured opacity.
ScaleAlphaReplaces(layer, opacity) ==
    [layer EXCEPT !.px =
        [xy \in DOMAIN layer.px |->
            <<layer.px[xy][1],
              IF opacity <= 0 THEN 0 ELSE TruncDiv(255 * opacity, 100)>>]]

\* A band value is a byte.
Clip8(v) == IF v <= 0 THEN 0 ELSE IF v >= 255 THEN 255 ELSE v

\* ImageEnhance.Brightness(alpha).enhance(opacity / 100) and putalpha: the
\* alpha band is blended with a black band, each value is multiplied by
\* opacity/100 and cut to an integer (a negative factor gives 0).  The
\* colour bands are left alone.
ScaleAlpha(layer, opacity) ==
    [layer EXCEPT !.px =
        [xy \in DOMAIN layer.px |->
            <<layer.px[xy][1], Clip8(TruncDiv(layer.px[xy][2] * opacity, 100))>>]]

\* create_text_watermark draws the text with a font: the layer it returns is
\* the rasteriser's, any of the layers here.
CreateTextWatermarkOutcomes(text, config) == { <<l>> : l \in Layers }

\* create_image_watermark.  wmFile is what is found at watermark_image_path:
\* "missing" (no such file), "unreadable" (Image.open raises), or "ok".
\* scale_factor is in tenths.  resize and rotate resample: their result is
\* any layer of the new size (a rotation by 90 degrees swaps the sides);
\* either may fail, and resize to an empty size does.  Every exception is
\* caught and gives None.  The record keeps the layer after each step:
\* opened (decoded, in RGBA), sized, faded, and result, the value returned.
NoImageTrace ==
    [opened |-> NoLayer, sized |-> NoLayer, faded |-> NoLayer, result |-> NoLayer]

CreateImageWatermarkTrace(config, wmFile) ==
    IF config.watermark_image_path = <<>> \/ wmFile = "missing"
    THEN {NoImageTrace}
    ELSE IF wmFile = "unreadable"
    THEN {NoImageTrace}
    ELSE LET Scaled(l) ==
                IF config.scale_factor # 10
                THEN LET new_width == (l.size[1] * config.scale_factor) \div 10
                         new_height == (l.size[2] * config.scale_factor) \div 10
                     IN  IF new_width = 0 \/ new_height = 0
                         THEN {NoLayer}
                         ELSE {NoLayer} \cup
                              { <<r>> : r \in LayersOfSize(new_width, new_height) }
                ELSE { <<l>> }
             Faded(o) ==
                IF o # NoLayer /\ config.opacity < 100
                THEN <<ScaleAlpha(o[1], config.opacity)>>
                ELSE o
             Rotated(o) ==
                IF o # NoLayer /\ config.rotation # 0
                THEN {NoLayer} \cup
                     { <<r>> : r \in LayersOfSize(o[1].size[2], o[1].size[1]) }
                ELSE {o}
         IN  UNION { UNION { { [opened |-> <<l>>, sized |-> o, faded |-> Faded(o),
                                result |-> r] : r \in Rotated(Faded(o)) }
                             : o \in Scaled(l) } : l \in Layers }

\* The values create_image_watermark may return.
CreateImageWatermarkOutcomes(config, wmFile) ==
    { t.result : t \in CreateImageWatermarkTrace(config, wmFile) }

-----------------------------------------------------------------------------
(* ImageProcessor.apply_watermark *)

\* A slip: the watermark is pasted onto the image itself, not onto a copy.
ApplyWatermarkInPlace(h, image, watermark, config) ==
    IF watermark = NoLayer
    THEN [heap |-> h, result |-> image]
    ELSE LET wm == watermark[1]
             position == CalculatePosition(h[image].size, wm.size, config)
         IN  [heap |-> [h EXCEPT ![image] = Paste(h[image], wm, position)],
              result |-> image]

\* apply_watermark from line 492 on, given the layer the renderer returned:
\* the heap after the call and the object returned.
ApplyWatermark(h, image, watermark, config) ==
    IF watermark = NoLayer
    THEN [heap |-> h, result |-> image]
    ELSE LET wm == watermark[1]
             position == CalculatePosition(h[image].size, wm.size, config)
             \* image.copy() is a new object, the paste changes that object
             result == Len(h) + 1
             copied == Append(h, h[image])
         IN  [heap |-> [copied EXCEPT ![result] = Paste(copied[result], wm, position)],
              result |-> result]

\* The layers the renderer of the configured kind may return.
RenderOutcomes(config, wmFile) ==
    IF config.watermark_type = "text"
    THEN CreateTextWatermarkOutcomes(config.text, config)
    ELSE CreateImageWatermarkOutcomes(config, wmFile)

WmPath == <<"wm", ".", "png">>

ApplyConfigs ==
    { [WatermarkConfig EXCEPT !.watermark_type = t, !.position = p,
                              !.margin_x = m, !.margin_y = m,
                              !.custom_x = c[1], !.custom_y = c[2],
                              !.rotation = r, !.scale_factor = sf, !.opacity = o] :
        t \in WatermarkType,
        p \in {"top_left", "center", "bottom_right", "custom"},
        m \in {0, MaxMargin}, c \in {<<-1, 0>>, <<1, 1>>},
        r \in {0, 90}, sf \in {1, 10, 20}, o \in {50, 100} }

NoApplyCall ==
    [image |-> 0, before |-> MkImage("RGB", 1, 1, <<0, 255>>, <<0, 255>>),
     config |-> WatermarkConfig, wmFile |-> "missing"]

NoApplyOut == [result |-> 0, watermark |-> NoLayer]

\* The photo is object 1; the call's arguments keep its value at the call.
ApplyInit ==
    /\ \E photo \in Photos, c \in ApplyConfigs,
          f \in {"empty_path", "missing", "unreadable", "ok"} :
          /\ heap = <<photo>>
          /\ applyCall = [image |-> 1, before |-> photo,
                          config |-> IF f = "empty_path" THEN c
                                     ELSE [c EXCEPT !.watermark_image_path = WmPath],
                          wmFile |-> IF f = "empty_path" THEN "missing" ELSE f]
    /\ applyOut = NoApplyOut

ApplyIdle ==
    /\ heap = <<>>
    /\ applyCall = NoApplyCall
    /\ applyOut = NoApplyOut

CallApplyWatermark ==
    /\ pc = "call"
    /\ \E watermark \in RenderOutcomes(applyCall.config, applyCall.wmFile) :
          LET r == ApplyWatermark(heap, applyCall.image, watermark, applyCall.config)
          IN  /\ heap' = r.heap
              /\ applyOut' = [result |-> r.result, watermark |-> watermark]
    /\ pc' = "done"
    /\ UNCHANGED applyCall

-----------------------------------------------------------------------------
(* Claims about apply_watermark *)

\* C4: apply_watermark never mutates its input image: after the call the input
\* object has the size and the pixels it had before, for the text and the
\* image kind and every anchor, opacity and rotation; when a layer was
\* rendered the paste went to another object, a copy that was the input's
\* equal before the paste.
C4_InputNotMutated ==
    pc = "done" =>
        /\ heap[applyCall.image] = applyCall.before
        /\ applyOut.watermark # NoLayer =>
                /\ applyOut.result # applyCall.image
                /\ heap[applyOut.result] =
                      Paste(applyCall.before, applyOut.watermark[1],
                            CalculatePosition(applyCall.before.size,
                                              applyOut.watermark[1].size,
                                              applyCall.config))

\* A visible layer was pasted: the result differs from the input's pixels.
C4_Witness ==
    /\ pc = "done"
    /\ applyOut.watermark # NoLayer
    /\ applyOut.result # applyCall.image
    /\ heap[applyOut.result] # applyCall.before
    /\ heap[applyCall.image] = applyCall.before

\* The image kind rendered no layer.
NoLayerCase ==
    /\ pc = "done"
    /\ applyCall.config.watermark_type = "image"
    /\ applyOut.watermark = NoLayer

\* C5: when an image-kind watermark cannot be rendered (empty path, missing or
\* unreadable file, a failure while scaling or rotating), create_image_watermark
\* returns no layer and apply_watermark returns an unmodified copy of the
\* photo: equal pixels, and a new image distinct from the input.
C5_NoLayerReturnsCopy ==
    /\ (pc = "done" /\ applyCall.config.watermark_type = "image"
           /\ (applyCall.config.watermark_image_path = <<>>
                \/ applyCall.wmFile \in {"missing", "unreadable"}
                \/ applyCall.config.scale_factor = 1))
            => applyOut.watermark = NoLayer
    /\ NoLayerCase =>
            /\ heap[applyOut.result] = applyCall.before
            /\ applyOut.result # applyCall.image

-----------------------------------------------------------------------------
(* Paths: os.path.basename, os.path.splitext, os.path.join, str.upper *)

\* The index of the last token t of p, 0 when there is none (str.rfind + 1).
RFind(p, t) ==
    LET hits == { i \in 1..Len(p) : p[i] = t }
    IN  IF hits = {} THEN 0 ELSE CHOOSE i \in hits : \A j \in hits : j <= i

\* os.path.basename: what follows the last separator.
Basename(p) == SubSeq(p, RFind(p, "/") + 1, Len(p))

\* A slip: the name is cut at its first dot, not at its last.
SplitextAtFirstDot(p) ==
    LET sepIndex == RFind(p, "/")
        dots == { i \in (sepIndex + 1)..Len(p) : p[i] = "." }
    IN  IF dots = {} THEN <<p, <<>>>>
        ELSE LET d == CHOOSE i \in dots : \A j \in dots : i <= j
             IN  <<SubSeq(p, 1, d - 1), SubSeq(p, d, Len(p))>>

\* os.path.splitext: <<root, ext>>.  The extension starts at the last dot of
\* the last component, unless only dots precede it in that component.
Splitext(p) ==
    LET sepIndex == RFind(p, "/")
        dotIndex == RFind(p, ".")
    IN  IF dotIndex > sepIndex
           /\ \E filenameIndex \in (sepIndex + 1)..(dotIndex - 1) :
                  p[filenameIndex] # "."
        THEN <<SubSeq(p, 1, dotIndex - 1), SubSeq(p, dotIndex, Len(p))>>
        ELSE <<p, <<>>>>

\* os.path.join(a, b): an absolute b replaces a; otherwise one separator
\* stands between the two.
PathJoin(a, b) ==
    IF b # <<>> /\ b[1] = "/" THEN b
    ELSE IF a = <<>> \/ a[Len(a)] = "/" THEN a \o b ELSE a \o <<"/">> \o b

\* The current working directory of the process.
Cwd == <<"/", "w">>

RECURSIVE NormComponents(_, _, _)
\* os.path.normpath on an absolute path, one token at a time: stack holds the
\* components kept so far and comp the component being read.  An empty
\* component and "." are dropped, ".." removes the component before it.
NormComponents(p, stack, comp) ==
    LET closed == IF comp = <<>> \/ comp = <<".">> THEN stack
                  ELSE IF comp = <<"..">>
                  THEN SubSeq(stack, 1, Len(stack) - 1)
                  ELSE Append(stack, comp)
    IN  IF p = <<>> THEN closed
        ELSE IF Head(p) = "/" THEN NormComponents(Tail(p), closed, <<>>)
        ELSE NormComponents(Tail(p), stack, Append(comp, Head(p)))

RECURSIVE JoinComponents(_)
\* "/" before every component.
JoinComponents(comps) ==
    IF comps = <<>> THEN <<>>
    ELSE <<"/">> \o Head(comps) \o JoinComponents(Tail(comps))

\* os.path.abspath: normpath(join(os.getcwd(), path)).
Abspath(path) ==
    LET comps == NormComponents(PathJoin(Cwd, path), <<>>, <<>>)
    IN  IF comps = <<>> THEN <<"/">> ELSE JoinComponents(comps)

\* The format strings tried, and str.upper() on them.
FormatStrings == {"JPEG", "jpeg", "Jpeg", "PNG", "png", "JPG", "TIFF"}

Upper(f) ==
    CASE f \in {"JPEG", "jpeg", "Jpeg"} -> "JPEG"
      [] f \in {"PNG", "png"} -> "PNG"
      [] OTHER -> f

-----------------------------------------------------------------------------
(* FileManager.generate_output_filename and the naming of batch_process *)

GenerateOutputFilename(input_path, prefix, suffix, output_format) ==
    LET base_name == Splitext(Basename(input_path))[1]
        new_name == prefix \o base_name \o suffix
    IN  IF Upper(output_format) = "JPEG"
        THEN new_name \o <<".", "jpg">>
        ELSE new_name \o <<".", "png">>

\* A slip: the format string is compared as given, not in upper case.
BatchNewFilenameNoUpper(image_path, filename_prefix, filename_suffix, output_format) ==
    LET base_name == Splitext(Basename(image_path))[1]
        new_filename == filename_prefix \o base_name \o filename_suffix
    IN  IF output_format = "JPEG"
        THEN new_filename \o <<".", "jpg">>
        ELSE new_filename \o <<".", "png">>

\* batch_process, lines 571-579: the file name it builds for an input.
BatchNewFilename(image_path, filename_prefix, filename_suffix, output_format) ==
    LET base_name == Splitext(Basename(image_path))[1]
        new_filename == filename_prefix \o base_name \o filename_suffix
    IN  IF Upper(output_format) = "JPEG"
        THEN new_filename \o <<".", "jpg">>
        ELSE new_filename \o <<".", "png">>

RECURSIVE SeqsUpTo(_, _)
\* The sequences over S of length at most n.
SeqsUpTo(S, n) ==
    IF n = 0 THEN {<<>>}
    ELSE LET shorter == SeqsUpTo(S, n - 1)
         IN  shorter \cup { Append(q, t) : q \in shorter, t \in S }

PathTokens == {"/", ".", "a", "jpg"}

NamePrefixes == { <<>>, <<"p_">>, <<"p", ".">> }
NameSuffixes == { <<>>, <<"_watermarked">>, <<".", "s">> }

NoNameArgs == [input_path |-> <<>>, prefix |-> <<>>, suffix |-> <<>>,
               output_format |-> "JPEG"]
NoNameOut == [file_manager |-> <<>>, batch |-> <<>>]

NameInit ==
    /\ nameArgs \in [input_path : SeqsUpTo(PathTokens, MaxPathLen),
                     prefix : NamePrefixes, suffix : NameSuffixes,
                     output_format : FormatStrings]
    /\ nameOut = NoNameOut

NameIdle ==
    /\ nameArgs = NoNameArgs
    /\ nameOut = NoNameOut

CallGenerateNames ==
    /\ pc = "call"
    /\ nameOut' =
          [file_manager |-> GenerateOutputFilename(nameArgs.input_path,
                                nameArgs.prefix, nameArgs.suffix,
                                nameArgs.output_format),
           batch |-> BatchNewFilename(nameArgs.input_path, nameArgs.prefix,
                                nameArgs.suffix, nameArgs.output_format)]
    /\ pc' = "done"
    /\ UNCHANGED nameArgs

-----------------------------------------------------------------------------
(* Claims about the output file name *)

\* base is the last component of path: what follows the last separator.
IsBasenameOf(base, path) ==
    /\ \A i \in 1..Len(base) : base[i] # "/"
    /\ \E dir \in { SubSeq(path, 1, k) : k \in 0..Len(path) } :
          /\ path = dir \o base
          /\ dir = <<>> \/ dir[Len(dir)] = "/"

AllDots(q) == \A i \in 1..Len(q) : q[i] = "."

\* stem is base without its last extension: base is stem followed by nothing
\* or by one dot and a dot-free rest; a name of leading dots only, or with no
\* dot after them, has no extension.
IsStemOf(stem, base) ==
    \E ext \in { SubSeq(base, k, Len(base)) : k \in 1..(Len(base) + 1) } :
        /\ base = stem \o ext
        /\ \/ /\ ext # <<>>
              /\ ext[1] = "."
              /\ \A i \in 2..Len(ext) : ext[i] # "."
              /\ ~AllDots(stem)
           \/ /\ ext = <<>>
              /\ \A k \in 1..Len(base) :
                    base[k] = "." => AllDots(SubSeq(base, 1, k))

NameAsSpecified(name, input_path, prefix, suffix, output_format) ==
    \E k \in 0..Len(input_path), j \in 0..Len(input_path) :
        LET base == SubSeq(input_path, k + 1, Len(input_path))
            stem == SubSeq(base, 1, j)
        IN  /\ j <= Len(base)
            /\ IsBasenameOf(base, input_path)
            /\ IsStemOf(stem, base)
            /\ name = prefix \o stem \o suffix \o
                       (IF output_format = "JPEG" THEN <<".", "jpg">>
                                                  ELSE <<".", "png">>)

\* C8: for every input path, prefix, suffix and output format in {JPEG, PNG}
\* the output file name built by batch_process and by generate_output_filename
\* is prefix + stem(input) + suffix + extension, the stem being the input's
\* base name without its last extension and the extension .jpg for JPEG and
\* .png for PNG.
C8_OutputFilename ==
    (pc = "done" /\ nameArgs.output_format \in {"JPEG", "PNG"}) =>
        /\ NameAsSpecified(nameOut.file_manager, nameArgs.input_path,
                           nameArgs.prefix, nameArgs.suffix, nameArgs.output_format)
        /\ NameAsSpecified(nameOut.batch, nameArgs.input_path,
                           nameArgs.prefix, nameArgs.suffix, nameArgs.output_format)

\* A path with a directory, named with a prefix and a suffix for PNG.
C8_Witness ==
    /\ pc = "done"
    /\ nameArgs.input_path = <<"/", "a", ".", "jpg">>
    /\ nameArgs.prefix = <<"p_">>
    /\ nameArgs.suffix = <<"_watermarked">>
    /\ nameArgs.output_format = "PNG"
    /\ nameOut.batch = <<"p_", "a", "_watermarked", ".", "png">>
    /\ nameOut.file_manager = nameOut.batch

\* A name with two dots: only the last extension is dropped.
C8_WitnessTwoDots ==
    /\ pc = "done"
    /\ nameArgs.input_path = <<"a", ".", ".", "jpg">>
    /\ nameArgs.output_format = "JPEG"
    /\ nameArgs.prefix = <<>>
    /\ nameArgs.suffix = <<>>
    /\ nameOut.batch = <<"a", ".", ".", "jpg">>

-----------------------------------------------------------------------------
(* ImageProcessor.save_image *)

\* Image.new('RGB', size, white) with the image pasted through its alpha band.
FlattenOnWhite(image) ==
    [mode |-> "RGB", size |-> image.size,
     px |-> [xy \in DOMAIN image.px |->
                <<Blend8(image.px[xy][2], 255, image.px[xy][1]), 255>>]]

\* A slip: the alpha band is dropped (convert('RGB')), not blended over white.
JpegDataDropsAlpha(image) ==
    [mode |-> "RGB", size |-> image.size,
     px |-> [xy \in DOMAIN image.px |-> <<image.px[xy][1], 255>>]]

\* Lines 515-519: what save_image hands to the JPEG encoder.
JpegData(image) ==
    IF image.mode = "RGBA" THEN FlattenOnWhite(image) ELSE image

\* save_image: the disk after the call and the value returned.  io is what
\* the file system does: "ok", "fail_early" (makedirs or opening the file
\* raises: nothing is written) or "fail_late" (the write raises after the
\* file was opened: a broken file is left).  Every exception is caught.
SaveImage(d, image, output_path, output_format, io) ==
    LET data == IF Upper(output_format) = "JPEG" THEN JpegData(image) ELSE image
        fmt == IF Upper(output_format) = "JPEG" THEN "JPEG" ELSE "PNG"
        Put(file) == [q \in DOMAIN d \cup {output_path} |->
                        IF q = output_path THEN file ELSE d[q]]
    IN  CASE io = "ok" ->
                [disk |-> Put([format |-> fmt, data |-> <<data>>]), ok |-> TRUE]
          [] io = "fail_late" ->
                [disk |-> Put([format |-> "broken", data |-> <<>>]), ok |-> FALSE]
          [] OTHER -> [disk |-> d, ok |-> FALSE]

IoOutcomes == {"ok", "fail_early", "fail_late"}

OutPath == <<"out", "/", "x", ".", "jpg">>

\* The images tried: the photos, and one with fully transparent pixels.
SaveImages ==
    Photos \cup { MkImage("RGBA", w, h, <<0, 0>>, <<128, 128>>) :
                    w \in 1..MaxPhoto, h \in 1..MaxPhoto }

OldFile == [format |-> "PNG", data |-> <<MkImage("RGB", 1, 1, <<0, 255>>, <<0, 255>>)>>]

NoSaveCall ==
    [image |-> MkImage("RGB", 1, 1, <<0, 255>>, <<0, 255>>), output_path |-> <<>>,
     output_format |-> "JPEG", io |-> "ok"]

\* The output path holds no file, or an older one.
SaveInit ==
    /\ saveCall \in [image : SaveImages, output_path : {OutPath},
                     output_format : FormatStrings, io : IoOutcomes]
    /\ saveOut = FALSE
    /\ disk \in { <<>>, [q \in {OutPath} |-> OldFile] }

SaveIdle ==
    /\ saveCall = NoSaveCall
    /\ saveOut = FALSE

DiskIdle == disk = <<>>

CallSaveImage ==
    /\ pc = "call"
    /\ LET r == SaveImage(disk, saveCall.image, saveCall.output_path,
                          saveCall.output_format, saveCall.io)
       IN  /\ disk' = r.disk
           /\ saveOut' = r.ok
    /\ pc' = "done"
    /\ UNCHANGED saveCall

-----------------------------------------------------------------------------
(* Claims about save_image *)

SavedFile == disk[saveCall.output_path]

\* v is c over white at alpha a, to the nearest integer.
IsOverWhite(v, c, a) ==
    LET exact255 == c * a + 255 * (255 - a)
        diff == 255 * v - exact255
    IN  2 * diff <= 255 /\ -255 <= 2 * diff

\* C9: whenever save_image writes with output format JPEG, the data handed to
\* the encoder has no alpha band, and each of its pixels is the image's
\* colour over opaque white weighted by the image's alpha (the colour itself
\* where the image has no alpha band); with format PNG the image is written
\* as it is, its alpha unchanged.
C9_JpegFlattenedOverWhite ==
    (pc = "done" /\ saveOut) =>
        LET img == saveCall.image
            out == SavedFile.data[1]
        IN  /\ saveCall.output_format = "JPEG" =>
                /\ SavedFile.format = "JPEG"
                /\ out.mode = "RGB"
                /\ out.size = img.size
                /\ \A xy \in DOMAIN img.px :
                      /\ out.px[xy][2] = 255
                      /\ IsOverWhite(out.px[xy][1], img.px[xy][1], img.px[xy][2])
            /\ saveCall.output_format = "PNG" =>
                /\ SavedFile.format = "PNG"
                /\ out = img

\* A half-transparent white and an opaque black pixel written as JPEG.
C9_Witness ==
    /\ pc = "done"
    /\ saveOut
    /\ saveCall.output_format = "JPEG"
    /\ saveCall.image = MkImage("RGBA", 2, 1, <<255, 128>>, <<0, 255>>)
    /\ SavedFile.data[1] = MkImage("RGB", 2, 1, <<255, 255>>, <<0, 255>>)

\* A half-transparent grey pixel written as JPEG: 128 over white at alpha 128.
C9_WitnessGrey ==
    /\ pc = "done"
    /\ saveOut
    /\ saveCall.output_format = "JPEG"
    /\ \E xy \in DOMAIN saveCall.image.px :
          /\ saveCall.image.px[xy] = <<128, 128>>
          /\ SavedFile.data[1].px[xy] = <<191, 255>>

-----------------------------------------------------------------------------
(* ImageProcessor.is_supported_format, load_image *)

\* str.lower() on a token.
LowerTok(t) ==
    CASE t = "JPG" -> "jpg"
      [] t = "PNG" -> "png"
      [] t = "Jpeg" -> "jpeg"
      [] t = "TIF" -> "tif"
      [] t = "Tiff" -> "tiff"
      [] t = "BMP" -> "bmp"
      [] t = "GIF" -> "gif"
      [] OTHER -> t

Lower(p) == [i \in 1..Len(p) |-> LowerTok(p[i])]

SUPPORTED_INPUT_FORMATS ==
    { <<".", e>> : e \in {"jpg", "jpeg", "png", "bmp", "tiff", "tif"} }

IsSupportedFormat(file_path) ==
    Splitext(Lower(file_path))[2] \in SUPPORTED_INPUT_FORMATS

\* image.convert('RGBA'): an image without an alpha band becomes opaque.
ConvertRGBA(image) ==
    IF image.mode = "RGBA" THEN image ELSE [image EXCEPT !.mode = "RGBA"]

\* What Image.open identifies as an image, whatever the file is called.
DecodableFormats == {"JPEG", "PNG", "BMP", "TIFF"}

\* A field of a file's record, or the default when the record has none.
FileField(file, name, default) ==
    IF name \in DOMAIN file THEN file[name] ELSE default

\* Image.open reads the header only: mode and size are known, the pixels are
\* decoded at the first use.  The handle of a file whose data cannot be
\* decoded has no pixels.
LazyHandle(image) == [image EXCEPT !.px = <<>>]

\* transpose(ROTATE_270), which exif_transpose applies for orientation 6.
Rotate270(image) ==
    [mode |-> image.mode, size |-> <<image.size[2], image.size[1]>>,
     px |-> [xy \in (1..image.size[2]) \X (1..image.size[1]) |->
                image.px[<<xy[2], image.size[2] + 1 - xy[1]>>]]]

\* load_image, lines 92-114, with the files Image.open was called for.
\* A file's record says how it decodes: format (one Image.open identifies,
\* or not), truncated (the header is good, decoding the data raises), and
\* the EXIF orientation.  Image.open raises for a path with no file and for
\* a file it cannot identify; exif_transpose decodes the data, and what it
\* raises is dropped (lines 101-106); convert decodes the data, and what it
\* raises is caught at line 112.
LoadImageTrace(d, file_path) ==
    IF ~IsSupportedFormat(file_path)
    THEN [opened |-> <<>>, result |-> <<>>]
    ELSE IF file_path \notin DOMAIN d
    THEN [opened |-> <<file_path>>, result |-> <<>>]
    ELSE IF d[file_path].format \notin DecodableFormats
    THEN [opened |-> <<file_path>>, result |-> <<>>]
    ELSE LET file == d[file_path]
             truncated == FileField(file, "truncated", FALSE)
             image == IF truncated THEN LazyHandle(file.data[1]) ELSE file.data[1]
             transposed ==
                IF truncated THEN image
                ELSE IF FileField(file, "orientation", 1) = 6 THEN Rotate270(image)
                ELSE image
         IN  [opened |-> <<file_path>>,
              result |-> IF transposed.mode # "RGBA"
                         THEN IF truncated THEN <<>>
                              ELSE <<ConvertRGBA(transposed)>>
                         ELSE <<transposed>>]

\* load_image: None (<<>>) or the image.
LoadImage(d, file_path) == LoadImageTrace(d, file_path).result

-----------------------------------------------------------------------------
(* ImageProcessor.batch_process *)

\* The layer the text renderer gives in a batch: one opaque pixel.
BatchLayer == MkImage("RGBA", 1, 1, <<0, 255>>, <<0, 255>>)

\* A slip: the except clause re-raises, so a failing input ends the batch.
BatchIterationAborts(st, image_path, j, proc, io) ==
    IF LoadImage(st.disk, image_path) # <<>> /\ proc = "raise"
    THEN [st EXCEPT !.raised = TRUE]
    ELSE st

\* A slip: the output path is recorded whatever save_image returned.
BatchIterationIgnoresSave(st, image_path, j, proc, io) ==
    LET image == LoadImage(st.disk, image_path)
    IN  IF image = <<>> \/ proc = "raise" THEN st
        ELSE LET applied == ApplyWatermark(image, 1, <<BatchLayer>>, j.config)
                 output_path == PathJoin(j.output_dir,
                                    BatchNewFilename(image_path, j.filename_prefix,
                                        j.filename_suffix, j.output_format))
                 saved == SaveImage(st.disk, applied.heap[applied.result],
                                    output_path, j.output_format, io)
             IN  [st EXCEPT !.disk = saved.disk,
                            !.results = Append(st.results, output_path)]

\* One pass of the loop body (lines 558-589) for image_path.  st holds the
\* results list, the disk, whether an exception left batch_process and, for
\* the claims, the paths save_image wrote to.  proc says whether resizing or
\* watermarking raises, io what saving meets.
BatchIteration(st, image_path, j, proc, io) ==
    LET image == LoadImage(st.disk, image_path)
    IN  IF image = <<>>
        THEN st                                    \* continue
        ELSE IF proc = "raise"
        THEN st                                    \* except Exception: continue
        ELSE LET applied == ApplyWatermark(image, 1, <<BatchLayer>>, j.config)
                 watermarked_image == applied.heap[applied.result]
                 output_path == PathJoin(j.output_dir,
                                    BatchNewFilename(image_path, j.filename_prefix,
                                        j.filename_suffix, j.output_format))
                 saved == SaveImage(st.disk, watermarked_image, output_path,
                                    j.output_format, io)
             IN  [st EXCEPT !.disk = saved.disk,
                            !.results = IF saved.ok
                                        THEN Append(st.results, output_path)
                                        ELSE st.results,
                            !.written = IF io = "fail_early" THEN st.written
                                        ELSE st.written \cup {output_path}]

\* The files of the batch: two readable photos with one stem, a file that
\* cannot be decoded, a file of another type, and a path with no file.
Pixel1(mode, p) == MkImage(mode, 1, 1, p, p)

BatchDisk ==
    LET files == { <<<<"a", "/", "x", ".", "jpg">>,
                     [format |-> "JPEG", data |-> <<Pixel1("RGB", <<255, 255>>)>>]>>,
                   <<<<"b", "/", "x", ".", "PNG">>,
                     [format |-> "PNG", data |-> <<Pixel1("RGBA", <<128, 128>>)>>]>>,
                   <<<<"a", "/", "c", ".", "jpg">>,
                     [format |-> "broken", data |-> <<>>]>>,
                   <<<<"a", "/", "n", ".", "txt">>,
                     [format |-> "text", data |-> <<>>]>> }
    IN  [q \in { f[1] : f \in files } |-> (CHOOSE f \in files : f[1] = q)[2]]

BatchInputs == DOMAIN BatchDisk \cup { <<"a", "/", "m", ".", "jpg">> }

Jobs ==
    [image_paths : SeqsUpTo(BatchInputs, MaxBatch),
     config : {WatermarkConfig},
     output_dir : { <<"out">>, <<"a">> },
     output_format : {"JPEG", "PNG"},
     filename_prefix : {<<>>},
     filename_suffix : {<<>>, <<"_wm">>}]

NoJob ==
    [image_paths |-> <<>>, config |-> WatermarkConfig, output_dir |-> <<>>,
     output_format |-> "JPEG", filename_prefix |-> <<>>, filename_suffix |-> <<>>]

\* batch_process is entered: results = [] and the loop is at the first input.
BatchInit ==
    /\ job \in Jobs
    /\ disk = BatchDisk
    /\ bpIdx = 1
    /\ results = <<>>
    /\ attempted = <<>>

BatchIdle ==
    /\ job = NoJob
    /\ bpIdx = 0
    /\ results = <<>>
    /\ attempted = <<>>

\* The loop body for the next input; attempted records the input, whether
\* load_image gave an image and what then happened.
BatchStep ==
    /\ pc = "loop"
    /\ bpIdx <= Len(job.image_paths)
    /\ \E proc \in {"ok", "raise"}, io \in IoOutcomes :
          LET image_path == job.image_paths[bpIdx]
              loaded == LoadImage(disk, image_path) # <<>>
              st == BatchIteration([results |-> results, disk |-> disk,
                                    raised |-> FALSE, written |-> {}],
                                   image_path, job, proc, io)
          IN  /\ loaded \/ (proc = "ok" /\ io = "ok")
              /\ proc = "ok" \/ io = "ok"
              /\ attempted' = Append(attempted,
                                 [idx |-> bpIdx, loaded |-> loaded,
                                  proc |-> proc, io |-> io])
              /\ results' = st.results
              /\ disk' = st.disk
              /\ IF st.raised
                 THEN pc' = "raised" /\ UNCHANGED bpIdx
                 ELSE pc' = "loop" /\ bpIdx' = bpIdx + 1
    /\ UNCHANGED job

\* The loop is over: return results.
BatchReturn ==
    /\ pc = "loop"
    /\ bpIdx > Len(job.image_paths)
    /\ pc' = "returned"
    /\ UNCHANGED <<job, bpIdx, results, attempted, disk>>

-----------------------------------------------------------------------------
RECURSIVE BatchProcess(_, _, _, _)
\* batch_process from input i on; oc[i] is what input i meets.
BatchProcess(st, j, i, oc) ==
    IF i > Len(j.image_paths) \/ st.raised THEN st
    ELSE BatchProcess(BatchIteration(st, j.image_paths[i], j, oc[i].proc, oc[i].io),
                      j, i + 1, oc)

-----------------------------------------------------------------------------
(* FileManager.validate_output_directory, check_file_conflicts *)

RECURSIVE RStripSep(_)
\* str.rstrip('/').
RStripSep(p) ==
    IF p # <<>> /\ p[Len(p)] = "/" THEN RStripSep(SubSeq(p, 1, Len(p) - 1)) ELSE p

\* os.path.dirname: what precedes the last separator, without the separators
\* that end it unless it is made of separators only.
Dirname(p) ==
    LET head == SubSeq(p, 1, RFind(p, "/"))
    IN  IF RStripSep(head) = <<>> THEN head ELSE RStripSep(head)

\* validate_output_directory, for a directory that exists and can be written:
\* with prevent_overwrite it is refused when an imported file lies in it.
ValidateOutputDirectory(imported_files, prevent_overwrite, output_dir) ==
    /\ output_dir # <<>>
    /\ prevent_overwrite =>
          \A k \in 1..Len(imported_files) :
              Abspath(output_dir) # Dirname(Abspath(imported_files[k]))

\* The output paths check_file_conflicts tests for existence.
ConflictPathsTested(output_dir, input_files, prefix, suffix, output_format) ==
    { PathJoin(output_dir,
               GenerateOutputFilename(input_files[k], prefix, suffix, output_format)) :
        k \in 1..Len(input_files) }

\* check_file_conflicts: those of them that exist.
CheckFileConflicts(d, output_dir, input_files, prefix, suffix, output_format) ==
    { q \in ConflictPathsTested(output_dir, input_files, prefix, suffix,
                                output_format) : q \in DOMAIN d }

-----------------------------------------------------------------------------
(* WatermarkApp.select_image, export_current_image, export_all_images *)

GuiFiles ==
    << <<"a", "/", "x", ".", "jpg">>, <<"b", "/", "x", ".", "PNG">>,
       <<"a", "/", "c", ".", "jpg">> >>

\* The file manager after an import and the export settings of the window.
\* checked and replacedUnchecked are kept for the claims: the paths the
\* latest export tested for existence, and the files that existed and were
\* written to by an export that had not tested them.
GuiInit ==
    /\ gui \in [imported_files : { SubSeq(GuiFiles, 1, n) : n \in 1..3 },
                prevent_overwrite : {TRUE},
                current_image_index : {1},
                original_image : { LoadImage(BatchDisk, GuiFiles[1]) },
                output_directory : { <<"out">>, <<"a">> },
                output_format : {"JPEG"},
                prefix : {<<>>},
                suffix : {<<"_watermarked">>},
                config : {WatermarkConfig},
                handler : {"none"},
                checked : {{}},
                replacedUnchecked : {{}}]
    /\ disk = BatchDisk

GuiIdle ==
    gui = [imported_files |-> <<>>, prevent_overwrite |-> TRUE,
           current_image_index |-> 1, original_image |-> <<>>,
           output_directory |-> <<>>, output_format |-> "JPEG",
           prefix |-> <<>>, suffix |-> <<>>, config |-> WatermarkConfig,
           handler |-> "none", checked |-> {}, replacedUnchecked |-> {}]

\* select_image(index): the image at the index becomes the current one and is
\* loaded (None when it cannot be).
SelectImage ==
    /\ pc = "gui"
    /\ \E index \in 1..Len(gui.imported_files) :
          gui' = [gui EXCEPT !.current_image_index = index,
                             !.original_image =
                                 LoadImage(disk, gui.imported_files[index]),
                             !.handler = "select_image"]
    /\ UNCHANGED disk

\* The user picks another output directory or output format.
SetExportOptions ==
    /\ pc = "gui"
    /\ \E dir \in { <<"out">>, <<"a">> }, f \in {"JPEG", "PNG"} :
          /\ <<dir, f>> # <<gui.output_directory, gui.output_format>>
          /\ gui' = [gui EXCEPT !.output_directory = dir, !.output_format = f,
                                !.handler = "options"]
    /\ UNCHANGED disk

\* The files that existed before an export and that it wrote to without
\* having tested their paths.
ReplacedUnchecked(before, written, checked) ==
    { q \in written : q \in DOMAIN before /\ q \notin checked }

\* export_current_image (an image is loaded, the output directory is chosen).
ExportCurrentImage ==
    /\ pc = "gui"
    /\ gui.original_image # <<>>
    /\ gui.output_directory # <<>>
    /\ \E io \in IoOutcomes, watermark \in { <<BatchLayer>> } :
        LET current_file == gui.imported_files[gui.current_image_index]
            valid == ValidateOutputDirectory(gui.imported_files,
                         gui.prevent_overwrite, gui.output_directory)
            applied == ApplyWatermark(gui.original_image, 1, watermark, gui.config)
            watermarked_image == applied.heap[applied.result]
            output_filename == GenerateOutputFilename(current_file, gui.prefix,
                                   gui.suffix, gui.output_format)
            output_path == PathJoin(gui.output_directory, output_filename)
            saved == SaveImage(disk, watermarked_image, output_path,
                               gui.output_format, io)
            written == IF io = "fail_early" THEN {} ELSE {output_path}
        IN  IF ~valid
            THEN /\ io = "ok"
                 /\ gui' = [gui EXCEPT !.handler = "export_current_invalid",
                                       !.checked = {}]
                 /\ UNCHANGED disk
            ELSE /\ disk' = saved.disk
                 /\ gui' = [gui EXCEPT
                        !.handler = "export_current",
                        !.checked = {},
                        !.replacedUnchecked =
                            @ \cup ReplacedUnchecked(disk, written, {})]

GuiOutcomes ==
    { [proc |-> "ok", io |-> "ok"], [proc |-> "ok", io |-> "fail_late"],
      [proc |-> "raise", io |-> "ok"] }

\* export_all_images (files are imported, the output directory is chosen).
\* answer is the user's reply to the overwrite question, asked only when
\* there are conflicts.
ExportAllImages ==
    /\ pc = "gui"
    /\ gui.imported_files # <<>>
    /\ gui.output_directory # <<>>
    /\ \E answer \in BOOLEAN,
          oc \in [1..Len(gui.imported_files) -> GuiOutcomes] :
        LET valid == ValidateOutputDirectory(gui.imported_files,
                         gui.prevent_overwrite, gui.output_directory)
            tested == ConflictPathsTested(gui.output_directory,
                          gui.imported_files, gui.prefix, gui.suffix,
                          gui.output_format)
            conflicts == CheckFileConflicts(disk, gui.output_directory,
                             gui.imported_files, gui.prefix, gui.suffix,
                             gui.output_format)
            j == [image_paths |-> gui.imported_files, config |-> gui.config,
                  output_dir |-> gui.output_directory,
                  output_format |-> gui.output_format,
                  filename_prefix |-> gui.prefix, filename_suffix |-> gui.suffix]
            st == BatchProcess([results |-> <<>>, disk |-> disk,
                                raised |-> FALSE, written |-> {}], j, 1, oc)
            quiet == \A k \in DOMAIN oc : oc[k] = [proc |-> "ok", io |-> "ok"]
        IN  IF ~valid
            THEN /\ answer /\ quiet
                 /\ gui' = [gui EXCEPT !.handler = "export_all_invalid",
                                       !.checked = {}]
                 /\ UNCHANGED disk
            ELSE IF conflicts # {} /\ ~answer
            THEN /\ quiet
                 /\ gui' = [gui EXCEPT !.handler = "export_all_declined",
                                       !.checked = tested]
                 /\ UNCHANGED disk
            ELSE /\ conflicts = {} => answer
                 /\ disk' = st.disk
                 /\ gui' = [gui EXCEPT
                        !.handler = "export_all",
                        !.checked = tested,
                        !.replacedUnchecked =
                            @ \cup ReplacedUnchecked(disk, st.written, tested)]

-----------------------------------------------------------------------------
(* Claims about the export handlers *)

\* C10: the exporter always overwrites an existing output file, and every
\* caller that exports (export_all_images and export_current_image) tests the
\* output path for existence before it invokes the exporter: no file that
\* existed is written to by an export that has not tested its path first.
C10_ConflictCheckBeforeOverwrite == gui.replacedUnchecked = {}

\* What holds of export_all_images alone: it writes to no existing file whose
\* path it has not tested.
ExportAllChecksFirst ==
    [][ExportAllImages => gui'.replacedUnchecked = gui.replacedUnchecked]_vars

-----------------------------------------------------------------------------
(* Claims about batch_process *)

\* batch_process has not raised, and the inputs before the loop index are the
\* inputs attempted so far, each once and in list order.
BatchOnTrack ==
    /\ pc # "raised"
    /\ pc \in {"loop", "returned"} =>
          /\ bpIdx \in 1..(Len(job.image_paths) + 1)
          /\ Len(attempted) = bpIdx - 1
          /\ \A i \in 1..Len(attempted) : attempted[i].idx = i
    /\ pc = "returned" => Len(attempted) = Len(job.image_paths)

\* A pass of the loop moves to the next input, and the only other step returns.
BatchAdvances ==
    pc = "loop" =>
        \/ pc' = "loop" /\ bpIdx' = bpIdx + 1 /\ bpIdx <= Len(job.image_paths)
        \/ pc' = "returned" /\ bpIdx = Len(job.image_paths) + 1

\* C6: batch_process always runs to completion: it never raises, each input
\* is attempted exactly once in list order whatever failed before it (load,
\* resize, watermark, save), every pass of the loop moves on to the next
\* input and after the last one batch_process returns.
C6_BatchRunsToCompletion == []BatchOnTrack /\ [][BatchAdvances]_vars

\* Three inputs: the first raises while it is processed, the save of the second
\* fails, and the third is still attempted and saved.
C6_Witness ==
    /\ pc = "returned"
    /\ Len(attempted) = 3
    /\ attempted[1].loaded /\ attempted[1].proc = "raise"
    /\ attempted[2].loaded /\ attempted[2].io = "fail_late"
    /\ attempted[3].loaded /\ attempted[3].proc = "ok" /\ attempted[3].io = "ok"
    /\ Len(results) = 1

RECURSIVE SuccessfulOutputs(_, _)
\* The output paths of the attempts, in order, that loaded, did not raise and
\* were saved.
SuccessfulOutputs(trace, j) ==
    IF trace = <<>> THEN <<>>
    ELSE LET t == trace[Len(trace)]
             before == SuccessfulOutputs(SubSeq(trace, 1, Len(trace) - 1), j)
         IN  IF t.loaded /\ t.proc = "ok" /\ t.io = "ok"
             THEN Append(before,
                         PathJoin(j.output_dir,
                                  j.filename_prefix
                                  \o Splitext(Basename(j.image_paths[t.idx]))[1]
                                  \o j.filename_suffix
                                  \o (IF j.output_format = "JPEG"
                                      THEN <<".", "jpg">> ELSE <<".", "png">>)))
             ELSE before

\* An input can be loaded: its extension is a supported one whatever its case,
\* and a decodable file is there.
Loadable(d, path) ==
    /\ Len(path) >= 3
    /\ path[Len(path) - 1] = "."
    /\ path[Len(path) - 2] \notin {".", "/"}
    /\ path[Len(path)] \in {"jpg", "JPG", "jpeg", "png", "PNG", "bmp", "tiff", "tif"}
    /\ path \in DOMAIN d
    /\ d[path].format \in {"JPEG", "PNG"}

\* C7: the list batch_process returns holds exactly the output paths of the
\* inputs that were loaded and saved, in input order: an input that fails to
\* load, raises while it is processed, or whose save_image returns False adds
\* no entry, every other input adds exactly one (three inputs with one missing
\* path give two entries; all-valid inputs give as many entries as inputs).
C7_ResultsAreTheSuccessfulOutputs ==
    /\ pc \in {"loop", "returned"} => results = SuccessfulOutputs(attempted, job)
    /\ pc = "returned" =>
          /\ \A i \in 1..Len(attempted) :
                (~Loadable(BatchDisk, job.image_paths[i])) => ~attempted[i].loaded
          /\ (\A i \in 1..Len(attempted) :
                  attempted[i].proc = "ok" /\ attempted[i].io = "ok") =>
                Len(results) <=
                    Cardinality({ i \in 1..Len(job.image_paths) :
                                    Loadable(BatchDisk, job.image_paths[i]) })
          /\ (\A i \in 1..Len(attempted) :
                    /\ Loadable(BatchDisk, job.image_paths[i])
                    /\ attempted[i].proc = "ok" /\ attempted[i].io = "ok") =>
                Len(results) = Len(job.image_paths)

\* Three inputs, the second a path with no file, nothing else failing: exactly
\* two entries, those of the first and the third input, in that order.
C7_Witness ==
    /\ pc = "returned"
    /\ job.image_paths = << <<"a", "/", "x", ".", "jpg">>,
                            <<"a", "/", "m", ".", "jpg">>,
                            <<"b", "/", "x", ".", "PNG">> >>
    /\ job.output_dir = <<"out">>
    /\ job.output_format = "PNG"
    /\ \A i \in 1..3 : attempted[i].proc = "ok" /\ attempted[i].io = "ok"
    /\ results = << <<"out", "/", "x", "_wm", ".", "png">>,
                    <<"out", "/", "x", "_wm", ".", "png">> >>

-----------------------------------------------------------------------------
(* TemplateManager.config_to_dict, dict_to_config *)

TemplateKeys ==
    {"watermark_type", "position", "opacity", "rotation", "custom_x", "custom_y",
     "text", "font_family", "font_size", "font_bold", "font_italic",
     "text_color", "stroke_width", "stroke_color", "shadow_offset",
     "shadow_color", "watermark_image_path", "scale_factor", "margin_x",
     "margin_y"}

\* The keys whose values are sequences: tuples in a config, lists in JSON.
TupleKeys == {"text_color", "stroke_color", "shadow_offset", "shadow_color"}

\* A sequence value inside a mapping is a Python tuple or a Python list.
PyTuple(items) == [kind |-> "tuple", items |-> items]
PyList(items) == [kind |-> "list", items |-> items]

\* tuple(v) of a tuple or a list.
Tuple(v) == v.items

\* A slip: the two margins change places in the mapping.
ConfigToDictSwapsMargins(config) ==
    [k \in TemplateKeys |->
        CASE k = "margin_x" -> config.margin_y
          [] k = "margin_y" -> config.margin_x
          [] k \in TupleKeys -> [kind |-> "tuple", items |-> config[k]]
          [] OTHER -> config[k]]

\* config_to_dict: the enumeration members by their .value, every other field
\* as it is (the tuples stay tuples).
ConfigToDict(config) ==
    [watermark_type |-> config.watermark_type,
     position |-> config.position,
     opacity |-> config.opacity,
     rotation |-> config.rotation,
     custom_x |-> config.custom_x,
     custom_y |-> config.custom_y,
     text |-> config.text,
     font_family |-> config.font_family,
     font_size |-> config.font_size,
     font_bold |-> config.font_bold,
     font_italic |-> config.font_italic,
     text_color |-> PyTuple(config.text_color),
     stroke_width |-> config.stroke_width,
     stroke_color |-> PyTuple(config.stroke_color),
     shadow_offset |-> PyTuple(config.shadow_offset),
     shadow_color |-> PyTuple(config.shadow_color),
     watermark_image_path |-> config.watermark_image_path,
     scale_factor |-> config.scale_factor,
     margin_x |-> config.margin_x,
     margin_y |-> config.margin_y]

\* A slip: a missing opacity is read as fully opaque.
DictGetOpaqueDefault(data, key, default) ==
    IF key \in DOMAIN data THEN data[key]
    ELSE IF key = "opacity" THEN 100 ELSE default

\* data.get(key, default)
DictGet(data, key, default) == IF key \in DOMAIN data THEN data[key] ELSE default

\* dict_to_config.  WatermarkType(v) and WatermarkPosition(v) raise ValueError
\* for a value that names no member; the result is <<>> then, and <<config>>
\* otherwise.
DictToConfig(data) ==
    LET watermark_type == DictGet(data, "watermark_type", "text")
        position == DictGet(data, "position", "bottom_right")
    IN  IF watermark_type \notin WatermarkType \/ position \notin WatermarkPosition
        THEN <<>>
        ELSE << [watermark_type |-> watermark_type,
                 position |-> position,
                 opacity |-> DictGet(data, "opacity", 50),
                 rotation |-> DictGet(data, "rotation", 0),
                 custom_x |-> DictGet(data, "custom_x", 0),
                 custom_y |-> DictGet(data, "custom_y", 0),
                 text |-> DictGet(data, "text", "Watermark"),
                 font_family |-> DictGet(data, "font_family", "Arial"),
                 font_size |-> DictGet(data, "font_size", 36),
                 font_bold |-> DictGet(data, "font_bold", FALSE),
                 font_italic |-> DictGet(data, "font_italic", FALSE),
                 text_color |->
                     Tuple(DictGet(data, "text_color", PyList(<<255, 255, 255>>))),
                 stroke_width |-> DictGet(data, "stroke_width", 2),
                 stroke_color |->
                     Tuple(DictGet(data, "stroke_color", PyList(<<0, 0, 0>>))),
                 shadow_offset |->
                     Tuple(DictGet(data, "shadow_offset", PyList(<<2, 2>>))),
                 shadow_color |->
                     Tuple(DictGet(data, "shadow_color", PyList(<<0, 0, 0>>))),
                 watermark_image_path |-> DictGet(data, "watermark_image_path", <<>>),
                 scale_factor |-> DictGet(data, "scale_factor", 10),
                 margin_x |-> DictGet(data, "margin_x", 20),
                 margin_y |-> DictGet(data, "margin_y", 20)] >>

\* json.dump followed by json.load of a mapping: a tuple comes back as a list,
\* strings, numbers and booleans as they were.
JsonRoundTrip(data) ==
    [k \in DOMAIN data |->
        IF k \in TupleKeys THEN PyList(data[k].items) ELSE data[k]]

\* The mapping without the keys in missing.
WithoutKeys(data, missing) == [k \in DOMAIN data \ missing |-> data[k]]

\* A configuration of the text kind and one of the image kind in which every
\* field differs from its default.
TextConfigVaried ==
    [watermark_type |-> "text", position |-> "custom", opacity |-> 70,
     rotation |-> -45, custom_x |-> -2, custom_y |-> 5, text |-> "Photo",
     font_family |-> "SimSun", font_size |-> 72, font_bold |-> TRUE,
     font_italic |-> TRUE, text_color |-> <<255, 0, 0>>, stroke_width |-> 0,
     stroke_color |-> <<1, 2, 3>>, shadow_offset |-> <<-3, 0>>,
     shadow_color |-> <<9, 9, 9>>, watermark_image_path |-> <<"wm", ".", "png">>,
     scale_factor |-> 15, margin_x |-> 0, margin_y |-> 10]

ImageConfigVaried ==
    [TextConfigVaried EXCEPT !.watermark_type = "image", !.position = "center",
                             !.opacity = 100, !.scale_factor = 1]

\* The configurations tried: the default one, the two above, and the default
\* one with a single field taken from them.
TemplateConfigs ==
    {WatermarkConfig, TextConfigVaried, ImageConfigVaried}
    \cup { [k \in TemplateKeys |->
              IF k = f THEN v[k] ELSE WatermarkConfig[k]] :
            f \in TemplateKeys, v \in {TextConfigVaried, ImageConfigVaried} }

\* The sets of keys a mapping may lack: few, or all but few.
MissingSets ==
    { m \in SUBSET TemplateKeys :
        Cardinality(m) <= MaxMissing \/ Cardinality(TemplateKeys \ m) <= MaxMissing }

-----------------------------------------------------------------------------
(* TemplateManager.save_template, load_template and the templates file *)

TemplateNames == {"t1", "t2"}

\* The configurations saved as templates.
SavedConfigs == {WatermarkConfig, TextConfigVaried, ImageConfigVaried}

NoTemplates == [n \in TemplateNames |-> <<>>]

\* json.dump / json.load of the templates: each template's mapping is encoded.
JsonTemplates(templates) ==
    [n \in DOMAIN templates |->
        IF templates[n] = <<>> THEN <<>>
        ELSE << [templates[n][1] EXCEPT !.config = JsonRoundTrip(@)] >>]

\* save_templates_to_file: io = "ok" writes the file; "fail_early" leaves it
\* alone (open raises), "fail_late" leaves a file that cannot be decoded.
SaveTemplatesToFile(m, io) ==
    CASE io = "ok" ->
            [m EXCEPT !.file = [state |-> "valid", content |-> JsonTemplates(m.templates)]]
      [] io = "fail_late" ->
            [m EXCEPT !.file = [state |-> "corrupt", content |-> NoTemplates]]
      [] OTHER -> m

\* load_templates_from_file: {} when there is no file or it cannot be decoded.
LoadTemplatesFromFile(file) ==
    IF file.state = "valid" THEN file.content ELSE NoTemplates

\* save_template: the template is put into the dictionary, then the
\* dictionary is written; the return value is that of the write.
SaveTemplate(m, name, config, description, io) ==
    LET template_data == [name |-> name, description |-> description,
                          config |-> ConfigToDict(config), created_at |-> "now"]
        put == [m EXCEPT !.templates[name] = <<template_data>>]
    IN  [tm |-> SaveTemplatesToFile(put, io), ok |-> io = "ok"]

\* load_template: None (<<>>) for an unknown name or when dict_to_config raises.
LoadTemplate(m, name) ==
    IF m.templates[name] = <<>> THEN <<>>
    ELSE DictToConfig(m.templates[name][1].config)

NoTmCall ==
    [op |-> "none", name |-> "t1", config |-> WatermarkConfig, missing |-> {},
     data |-> ConfigToDict(WatermarkConfig)]

NoTmOut == [ok |-> FALSE, config |-> <<>>]

\* A manager over an empty templates directory.  saved and durable are kept
\* for the claims: the configuration last saved under each name, and the one
\* the file holds.
TmEmpty ==
    [templates |-> NoTemplates,
     file |-> [state |-> "absent", content |-> NoTemplates],
     saved |-> NoTemplates,
     durable |-> NoTemplates]

TemplateIdle == tm = TmEmpty /\ tmCall = NoTmCall /\ tmOut = NoTmOut

\* Either a call of dict_to_config is under way, on the mapping of a
\* configuration with some keys left out, or the manager is in use.
TemplateInit ==
    /\ tm = TmEmpty
    /\ tmOut = NoTmOut
    /\ \/ /\ pc = "call"
          /\ \E config \in TemplateConfigs, missing \in MissingSets,
                json \in BOOLEAN :
                tmCall = [op |-> "dict_to_config", name |-> "t1",
                          config |-> config, missing |-> missing,
                          data |-> WithoutKeys(IF json
                                               THEN JsonRoundTrip(ConfigToDict(config))
                                               ELSE ConfigToDict(config), missing)]
       \/ pc = "tm" /\ tmCall = NoTmCall

CallDictToConfig ==
    /\ pc = "call"
    /\ tmCall.op = "dict_to_config"
    /\ tmOut' = [ok |-> DictToConfig(tmCall.data) # <<>>,
                 config |-> DictToConfig(tmCall.data)]
    /\ pc' = "done"
    /\ UNCHANGED <<tm, tmCall>>

CallSaveTemplate ==
    /\ pc = "tm"
    /\ \E name \in TemplateNames, config \in SavedConfigs, io \in IoOutcomes :
          LET saved == SaveTemplate(tm, name, config, "", io)
              now == [tm.saved EXCEPT ![name] = <<config>>]
          IN  /\ tm' = [saved.tm EXCEPT
                          !.saved = now,
                          !.durable = CASE io = "ok" -> now
                                        [] io = "fail_late" -> NoTemplates
                                        [] OTHER -> @]
              /\ tmCall' = [NoTmCall EXCEPT !.op = "save_template", !.name = name,
                                            !.config = config,
                                            !.data = ConfigToDict(config)]
              /\ tmOut' = [ok |-> saved.ok, config |-> <<>>]
    /\ UNCHANGED pc

CallLoadTemplate ==
    /\ pc = "tm"
    /\ \E name \in TemplateNames :
          /\ tmCall' = [NoTmCall EXCEPT !.op = "load_template", !.name = name]
          /\ tmOut' = [ok |-> LoadTemplate(tm, name) # <<>>,
                       config |-> LoadTemplate(tm, name)]
    /\ UNCHANGED <<pc, tm>>

\* The program is started again: TemplateManager.__init__ reads the file.
\* What was saved without reaching the file is gone.
RestartTemplateManager ==
    /\ pc = "tm"
    /\ tm.templates # LoadTemplatesFromFile(tm.file)
    /\ tm' = [tm EXCEPT !.templates = LoadTemplatesFromFile(tm.file),
                        !.saved = tm.durable]
    /\ tmCall' = [NoTmCall EXCEPT !.op = "restart"]
    /\ tmOut' = NoTmOut
    /\ UNCHANGED pc

-----------------------------------------------------------------------------
(* Claims about the templates *)

\* C11: the round trip.  dict_to_config(config_to_dict(config)) equals config
\* on every field, for configurations of the text kind and of the image kind,
\* and load_template of a name returns a configuration equal on every field
\* to the one save_template stored under that name.
C11_RoundTrip ==
    /\ (pc = "done" /\ tmCall.op = "dict_to_config" /\ tmCall.missing = {}) =>
          /\ tmOut.config # <<>>
          /\ \A k \in TemplateKeys : tmOut.config[1][k] = tmCall.config[k]
    /\ (tmCall.op = "load_template" /\ tm.saved[tmCall.name] # <<>>) =>
          /\ tmOut.config # <<>>
          /\ \A k \in TemplateKeys :
                tmOut.config[1][k] = tm.saved[tmCall.name][1][k]

\* A configuration of the image kind has come back from its mapping.
C11_Witness ==
    /\ pc = "done" /\ tmCall.op = "dict_to_config" /\ tmCall.missing = {}
    /\ tmCall.config = ImageConfigVaried
    /\ tmOut.config = <<ImageConfigVaried>>

\* A template saved before a restart is loaded after it.
C11_WitnessTemplate ==
    /\ tmCall.op = "load_template"
    /\ tm.file.state = "valid"
    /\ tm.saved[tmCall.name] = <<TextConfigVaried>>
    /\ tm.templates[tmCall.name][1].config.text_color.kind = "list"
    /\ tmOut.config = <<TextConfigVaried>>

\* C12: dict_to_config accepts a mapping with any keys missing without
\* failing; every field whose key is missing has the value a freshly
\* constructed WatermarkConfig has, every other field the mapping's value.
\* dict_to_config({}) equals WatermarkConfig() on every field.
C12_MissingKeysGetDefaults ==
    (pc = "done" /\ tmCall.op = "dict_to_config") =>
        /\ tmOut.config # <<>>
        /\ \A k \in tmCall.missing : tmOut.config[1][k] = WatermarkConfig[k]
        /\ \A k \in TemplateKeys \ tmCall.missing :
              tmOut.config[1][k] = tmCall.config[k]
        /\ tmCall.missing = TemplateKeys => tmOut.config = <<WatermarkConfig>>

\* The empty mapping has been converted.
C12_Witness ==
    /\ pc = "done" /\ tmCall.op = "dict_to_config"
    /\ DOMAIN tmCall.data = {}
    /\ tmCall.config # WatermarkConfig
    /\ tmOut.config = <<WatermarkConfig>>

\* A mapping lacking only the opacity has been converted.
C12_WitnessOneMissing ==
    /\ pc = "done" /\ tmCall.op = "dict_to_config"
    /\ tmCall.missing = {"opacity"}
    /\ tmCall.config.opacity = 70
    /\ tmOut.config # <<>> /\ tmOut.config[1].opacity = 50

-----------------------------------------------------------------------------
(* ImageProcessor.get_font, get_chinese_font *)

\* The font families tried.  The Chinese names are written by their code
\* points: U+5B8B U+4F53 (SimSun), U+9ED1 U+4F53 (SimHei), U+5FAE U+8F6F
\* U+96C5 U+9ED1 (Microsoft YaHei).
FontFamilies ==
    {"Arial", "ARIAL", "Times New Roman", "Calibri", "SimSun", "U+5B8B U+4F53",
     "SimHei", "YaHei", "U+5FAE U+8F6F U+96C5 U+9ED1", "Microsoft YaHei",
     "Verdana"}

\* font_family.lower()
LowerFamily(font_family) ==
    CASE font_family \in {"Arial", "ARIAL"} -> "arial"
      [] font_family = "Times New Roman" -> "times new roman"
      [] font_family = "Calibri" -> "calibri"
      [] font_family = "SimSun" -> "simsun"
      [] font_family = "SimHei" -> "simhei"
      [] font_family = "YaHei" -> "yahei"
      [] font_family = "Microsoft YaHei" -> "microsoft yahei"
      [] font_family = "Verdana" -> "verdana"
      [] OTHER -> font_family

SimSunNames == {"simsun", "U+5B8B U+4F53"}
SimHeiNames == {"simhei", "U+9ED1 U+4F53"}
YaHeiNames == {"microsoftyahei", "U+5FAE U+8F6F U+96C5 U+9ED1", "yahei"}

\* ImageProcessor.__init__
default_font_paths ==
    << "C:/Windows/Fonts/arial.ttf", "C:/Windows/Fonts/calibri.ttf",
       "C:/Windows/Fonts/times.ttf", "arial.ttf" >>

chinese_font_paths ==
    << "C:/Windows/Fonts/simsun.ttc", "C:/Windows/Fonts/simhei.ttf",
       "C:/Windows/Fonts/msyh.ttc", "C:/Windows/Fonts/simkai.ttf",
       "C:/Windows/Fonts/simfang.ttf", "C:/Windows/Fonts/STXIHEI.TTF",
       "C:/Windows/Fonts/STZHONGS.TTF" >>

\* The styled files of a Latin family, then its regular ones (the if / elif
\* chain on bold and italic, then the extend that follows it).
StyledThenRegular(bold, italic, bi, b, i, regular) ==
    (IF bold /\ italic THEN bi
     ELSE IF bold THEN b
     ELSE IF italic THEN i
     ELSE <<>>) \o regular

\* get_font, the SimSun branch: the regular file, then the bold one if bold.
SimSunPaths(bold) ==
    << "C:/Windows/Fonts/simsun.ttc",
       IF bold THEN "C:/Windows/Fonts/simsunb.ttf" ELSE "C:/Windows/Fonts/simsun.ttc" >>

\* get_font: font_paths_to_try
FontPathsToTry(font_family, bold, italic) ==
    LET family == LowerFamily(font_family)
        own ==
          CASE family = "arial" ->
                 StyledThenRegular(bold, italic,
                    << "C:/Windows/Fonts/arialbi.ttf",
                       "C:/Windows/Fonts/Arial Bold Italic.ttf" >>,
                    << "C:/Windows/Fonts/arialbd.ttf",
                       "C:/Windows/Fonts/Arial Bold.ttf" >>,
                    << "C:/Windows/Fonts/ariali.ttf",
                       "C:/Windows/Fonts/Arial Italic.ttf" >>,
                    << "C:/Windows/Fonts/arial.ttf", "C:/Windows/Fonts/Arial.ttf" >>)
            [] family = "times new roman" ->
                 StyledThenRegular(bold, italic,
                    << "C:/Windows/Fonts/timesbi.ttf", "C:/Windows/Fonts/timesbi.ttc",
                       "C:/Windows/Fonts/Times New Roman Bold Italic.ttf" >>,
                    << "C:/Windows/Fonts/timesbd.ttf", "C:/Windows/Fonts/timesb.ttc",
                       "C:/Windows/Fonts/Times New Roman Bold.ttf" >>,
                    << "C:/Windows/Fonts/timesi.ttf", "C:/Windows/Fonts/timesi.ttc",
                       "C:/Windows/Fonts/Times New Roman Italic.ttf" >>,
                    << "C:/Windows/Fonts/times.ttf", "C:/Windows/Fonts/times.ttc",
                       "C:/Windows/Fonts/Times New Roman.ttf" >>)
            [] family = "calibri" ->
                 StyledThenRegular(bold, italic,
                    << "C:/Windows/Fonts/calibribi.ttf", "C:/Windows/Fonts/calibribi.ttf",
                       "C:/Windows/Fonts/Calibri Bold Italic.ttf" >>,
                    << "C:/Windows/Fonts/calibrib.ttf",
                       "C:/Windows/Fonts/calibri-bold.ttf",
                       "C:/Windows/Fonts/Calibri Bold.ttf" >>,
                    << "C:/Windows/Fonts/calibrii.ttf",
                       "C:/Windows/Fonts/calibri-italic.ttf",
                       "C:/Windows/Fonts/Calibri Italic.ttf" >>,
                    << "C:/Windows/Fonts/calibri.ttf", "C:/Windows/Fonts/Calibri.ttf" >>)
            [] family \in SimSunNames -> SimSunPaths(bold)
            [] family \in SimHeiNames -> << "C:/Windows/Fonts/simhei.ttf" >>
            [] family \in YaHeiNames ->
                 (IF bold
                  THEN << "C:/Windows/Fonts/msyhbd.ttc", "C:/Windows/Fonts/msyhbd.ttf",
                          "C:/Windows/Fonts/MSYHBD.TTC" >>
                  ELSE <<>>)
                 \o << "C:/Windows/Fonts/msyh.ttc", "C:/Windows/Fonts/msyh.ttf",
                       "C:/Windows/Fonts/MSYH.TTC" >>
            [] OTHER -> <<>>
    IN  own \o default_font_paths \o chinese_font_paths

\* get_chinese_font: chinese_fonts
ChineseFonts(font_family, bold, italic) ==
    LET family == LowerFamily(font_family)
        msyhbd == << "C:/Windows/Fonts/msyhbd.ttc", "C:/Windows/Fonts/msyhbd.ttf",
                     "C:/Windows/Fonts/MSYHBD.TTC" >>
        msyh == << "C:/Windows/Fonts/msyh.ttc", "C:/Windows/Fonts/msyh.ttf",
                   "C:/Windows/Fonts/MSYH.TTC" >>
        own ==
          CASE family \in YaHeiNames ->
                 IF bold /\ italic THEN msyhbd
                 ELSE IF bold THEN msyhbd
                 ELSE IF italic THEN msyh
                 ELSE msyh
            [] family \in SimSunNames ->
                 (IF bold THEN << "C:/Windows/Fonts/simsunb.ttf" >> ELSE <<>>)
                 \o << "C:/Windows/Fonts/simsun.ttc" >>
            [] family \in SimHeiNames -> << "C:/Windows/Fonts/simhei.ttf" >>
            [] OTHER ->
                 (IF bold
                  THEN << "C:/Windows/Fonts/msyhbd.ttc", "C:/Windows/Fonts/msyhbd.ttf" >>
                  ELSE <<>>)
                 \o << "C:/Windows/Fonts/msyh.ttc", "C:/Windows/Fonts/msyh.ttf" >>
    IN  own \o << "C:/Windows/Fonts/simkai.ttf", "C:/Windows/Fonts/simfang.ttf",
                  "C:/Windows/Fonts/STXIHEI.TTF", "C:/Windows/Fonts/STZHONGS.TTF" >>

\* A machine is the font files it has: those that load and those that exist
\* but cannot be loaded.  ImageFont.truetype raises for the latter, and for
\* any file when the size is not positive.
Exists(machine, font_path) == font_path \in machine.ok \cup machine.broken
Loads(machine, font_path, font_size) == font_path \in machine.ok /\ font_size > 0

\* ImageFont.load_default(): the font built into the imaging library.
LoadDefault == [path |-> "load_default", size |-> 10]

RECURSIVE FirstLoadableRaising(_, _, _, _)
\* A slip: the exception of ImageFont.truetype is not caught.
FirstLoadableRaising(paths, i, machine, font_size) ==
    IF i > Len(paths) THEN [raised |-> FALSE, font |-> LoadDefault]
    ELSE IF ~Exists(machine, paths[i])
    THEN FirstLoadableRaising(paths, i + 1, machine, font_size)
    ELSE IF Loads(machine, paths[i], font_size)
    THEN [raised |-> FALSE, font |-> [path |-> paths[i], size |-> font_size]]
    ELSE [raised |-> TRUE, font |-> LoadDefault]

RECURSIVE FirstLoadable(_, _, _, _)
\* The loop over the candidates, from the i-th on: the first file that exists
\* and loads; a file that exists and raises is passed over; at the end of the
\* list the built-in font.
FirstLoadable(paths, i, machine, font_size) ==
    IF i > Len(paths) THEN [raised |-> FALSE, font |-> LoadDefault]
    ELSE IF Exists(machine, paths[i]) /\ Loads(machine, paths[i], font_size)
    THEN [raised |-> FALSE, font |-> [path |-> paths[i], size |-> font_size]]
    ELSE FirstLoadable(paths, i + 1, machine, font_size)

GetFont(machine, font_family, font_size, bold, italic) ==
    FirstLoadable(FontPathsToTry(font_family, bold, italic), 1, machine, font_size)

GetChineseFont(machine, font_family, font_size, bold, italic) ==
    FirstLoadable(ChineseFonts(font_family, bold, italic), 1, machine, font_size)

Range(f) == { f[i] : i \in DOMAIN f }

RECURSIVE SubsetsUpTo(_, _)
\* The subsets of S with at most k elements.
SubsetsUpTo(S, k) ==
    IF k = 0 THEN {{}}
    ELSE LET smaller == SubsetsUpTo(S, k - 1)
         IN  smaller \cup { s \cup {x} : s \in smaller, x \in S }

\* The machines tried for a list of candidates: a few of the candidates are
\* on the machine, each loadable or not.
Machines(paths) ==
    { [ok |-> present \ broken, broken |-> broken] :
        <<present, broken>> \in
            { pb \in SubsetsUpTo(Range(paths), MaxFontFiles)
                       \X SubsetsUpTo(Range(paths), MaxFontFiles) :
                pb[2] \subseteq pb[1] } }

FontSizes == {0, 36}

NoFontCall ==
    [function |-> "none", font_family |-> "Arial", font_size |-> 36,
     bold |-> FALSE, italic |-> FALSE, machine |-> [ok |-> {}, broken |-> {}]]

NoFontOut == [raised |-> FALSE, font |-> LoadDefault]

FontIdle == fontCall = NoFontCall /\ fontOut = NoFontOut

FontInit ==
    /\ \E function \in {"get_font", "get_chinese_font"},
          font_family \in FontFamilies, font_size \in FontSizes,
          bold \in BOOLEAN, italic \in BOOLEAN :
          \E machine \in Machines(IF function = "get_font"
                                  THEN FontPathsToTry(font_family, bold, italic)
                                  ELSE ChineseFonts(font_family, bold, italic)) :
             fontCall = [function |-> function, font_family |-> font_family,
                         font_size |-> font_size, bold |-> bold,
                         italic |-> italic, machine |-> machine]
    /\ fontOut = NoFontOut

CallGetFont ==
    /\ pc = "call"
    /\ fontCall.function = "get_font"
    /\ fontOut' = GetFont(fontCall.machine, fontCall.font_family,
                          fontCall.font_size, fontCall.bold, fontCall.italic)
    /\ pc' = "done"
    /\ UNCHANGED fontCall

CallGetChineseFont ==
    /\ pc = "call"
    /\ fontCall.function = "get_chinese_font"
    /\ fontOut' = GetChineseFont(fontCall.machine, fontCall.font_family,
                                 fontCall.font_size, fontCall.bold, fontCall.italic)
    /\ pc' = "done"
    /\ UNCHANGED fontCall

-----------------------------------------------------------------------------
(* Claims about the font resolution *)

\* The candidate list of the call under way.
CallCandidates ==
    IF fontCall.function = "get_font"
    THEN FontPathsToTry(fontCall.font_family, fontCall.bold, fontCall.italic)
    ELSE ChineseFonts(fontCall.font_family, fontCall.bold, fontCall.italic)

LoadableCandidates ==
    { q \in Range(CallCandidates) : Loads(fontCall.machine, q, fontCall.font_size) }

\* C13: font resolution never fails.  For every family, size, bold and italic
\* flag and every set of font files on the machine (none, and files that
\* exist but cannot be loaded, included) get_font and get_chinese_font return
\* a font without raising: a candidate that loads, and the built-in default
\* font when no candidate loads.
C13_FontResolutionNeverFails ==
    pc = "done" /\ fontCall.function # "none" =>
        /\ ~fontOut.raised
        /\ IF LoadableCandidates = {}
           THEN fontOut.font = LoadDefault
           ELSE /\ fontOut.font.path \in LoadableCandidates
                /\ fontOut.font.size = fontCall.font_size

\* A file of the list exists and cannot be loaded, no other is there: the
\* built-in font is returned.
C13_Witness ==
    /\ pc = "done" /\ fontCall.function = "get_font"
    /\ fontCall.machine.broken # {} /\ fontCall.machine.ok = {}
    /\ fontCall.font_size > 0
    /\ ~fontOut.raised /\ fontOut.font = LoadDefault

\* The same for get_chinese_font, the broken file being passed over for a
\* later one.
C13_WitnessChinese ==
    /\ pc = "done" /\ fontCall.function = "get_chinese_font"
    /\ "C:/Windows/Fonts/msyh.ttc" \in fontCall.machine.broken
    /\ fontCall.font_size > 0
    /\ ~fontOut.raised /\ fontOut.font.path = "C:/Windows/Fonts/simkai.ttf"

\* The faces of the families, as the file names tell them: the files of the
\* exact style asked for (a family without italic faces matches on the weight
\* alone), and the regular files.  Alternate spellings of a file name count
\* with the file they spell.
ExactStyleFiles(family, bold, italic) ==
    CASE family = "arial" /\ bold /\ italic ->
            {"C:/Windows/Fonts/arialbi.ttf", "C:/Windows/Fonts/Arial Bold Italic.ttf"}
      [] family = "arial" /\ bold /\ ~italic ->
            {"C:/Windows/Fonts/arialbd.ttf", "C:/Windows/Fonts/Arial Bold.ttf"}
      [] family = "arial" /\ ~bold /\ italic ->
            {"C:/Windows/Fonts/ariali.ttf", "C:/Windows/Fonts/Arial Italic.ttf"}
      [] family = "times new roman" /\ bold /\ italic ->
            {"C:/Windows/Fonts/timesbi.ttf", "C:/Windows/Fonts/timesbi.ttc",
             "C:/Windows/Fonts/Times New Roman Bold Italic.ttf"}
      [] family = "times new roman" /\ bold /\ ~italic ->
            {"C:/Windows/Fonts/timesbd.ttf", "C:/Windows/Fonts/timesb.ttc",
             "C:/Windows/Fonts/Times New Roman Bold.ttf"}
      [] family = "times new roman" /\ ~bold /\ italic ->
            {"C:/Windows/Fonts/timesi.ttf", "C:/Windows/Fonts/timesi.ttc",
             "C:/Windows/Fonts/Times New Roman Italic.ttf"}
      [] family = "calibri" /\ bold /\ italic ->
            {"C:/Windows/Fonts/calibribi.ttf", "C:/Windows/Fonts/Calibri Bold Italic.ttf"}
      [] family = "calibri" /\ bold /\ ~italic ->
            {"C:/Windows/Fonts/calibrib.ttf", "C:/Windows/Fonts/calibri-bold.ttf",
             "C:/Windows/Fonts/Calibri Bold.ttf"}
      [] family = "calibri" /\ ~bold /\ italic ->
            {"C:/Windows/Fonts/calibrii.ttf", "C:/Windows/Fonts/calibri-italic.ttf",
             "C:/Windows/Fonts/Calibri Italic.ttf"}
      [] family \in SimSunNames /\ bold -> {"C:/Windows/Fonts/simsunb.ttf"}
      [] family \in YaHeiNames /\ bold ->
            {"C:/Windows/Fonts/msyhbd.ttc", "C:/Windows/Fonts/msyhbd.ttf",
             "C:/Windows/Fonts/MSYHBD.TTC"}
      [] OTHER -> {}

RegularFiles(family) ==
    CASE family = "arial" -> {"C:/Windows/Fonts/arial.ttf", "C:/Windows/Fonts/Arial.ttf"}
      [] family = "times new roman" ->
            {"C:/Windows/Fonts/times.ttf", "C:/Windows/Fonts/times.ttc",
             "C:/Windows/Fonts/Times New Roman.ttf"}
      [] family = "calibri" ->
            {"C:/Windows/Fonts/calibri.ttf", "C:/Windows/Fonts/Calibri.ttf"}
      [] family \in SimSunNames -> {"C:/Windows/Fonts/simsun.ttc"}
      [] family \in SimHeiNames -> {"C:/Windows/Fonts/simhei.ttf"}
      [] family \in YaHeiNames ->
            {"C:/Windows/Fonts/msyh.ttc", "C:/Windows/Fonts/msyh.ttf",
             "C:/Windows/Fonts/MSYH.TTC"}
      [] OTHER -> {}

\* The rank of a font in the order of the claim: 1 the exact style of the
\* family, 2 the family's regular face, 3 a generic system font, 4 the
\* built-in font.
PriorityRank(font_path) ==
    LET family == LowerFamily(fontCall.font_family)
    IN  IF font_path \in ExactStyleFiles(family, fontCall.bold, fontCall.italic) THEN 1
        ELSE IF font_path \in RegularFiles(family) THEN 2
        ELSE IF font_path = LoadDefault.path THEN 4
        ELSE 3

\* C14: get_font returns the first candidate that exists and loads in the
\* order exact style of the requested family, the family's regular face,
\* alternate spellings, generic system fonts, built-in fallback: a candidate
\* of lower priority is never returned while one of higher priority loads.
C14_PriorityOrder ==
    pc = "done" /\ fontCall.function = "get_font" =>
        /\ fontOut.font = LoadDefault <=> LoadableCandidates = {}
        /\ \A q \in LoadableCandidates :
              PriorityRank(fontOut.font.path) <= PriorityRank(q)

\* What holds of get_font: the font returned is the first in its own list
\* that loads.
GetFontReturnsFirstOfItsList ==
    pc = "done" /\ fontCall.function = "get_font" /\ LoadableCandidates # {} =>
        \E i \in 1..Len(CallCandidates) :
            /\ CallCandidates[i] = fontOut.font.path
            /\ \A k \in 1..(i - 1) : CallCandidates[k] \notin LoadableCandidates

-----------------------------------------------------------------------------
(* ImageProcessor.has_chinese_characters, create_text_watermark (the layer's *)
(* font, geometry and inks)                                                  *)

\* A slip: the last code point of the block is left out.
HasChineseCharactersExclusive(text) ==
    \E i \in 1..Len(text) : 19968 <= text[i] /\ text[i] < 40959

\* A text is a sequence of code points.  has_chinese_characters: some
\* character lies in '\u4e00'..'\u9fff'.
HasChineseCharacters(text) ==
    \E i \in 1..Len(text) : 19968 <= text[i] /\ text[i] <= 40959

\* A slip: the skew is given to every italic text.
ShearAppliesToItalic(has_chinese, font_italic) == font_italic

\* The condition of the skew (line 434).
ShearApplies(has_chinese, font_italic) == has_chinese /\ font_italic

\* A slip: the skewed layer keeps the width it had.
ShearedSizeSameWidth(size) == size

\* The size of the skewed layer: (int(width + 0.2 * height), height).
ShearedSize(size) == <<size[1] + (2 * size[2]) \div 10, size[2]>>

\* watermark.rotate(rotation, expand=True), for multiples of 90 degrees.
RotatedSize(size, rotation) ==
    IF rotation % 180 = 0 THEN size ELSE <<size[2], size[1]>>

\* Lines 429-446: the rotation if one is asked for, then the skew on what the
\* rotation gave.
Transform(size, rotation, shear) ==
    LET rotated == IF rotation # 0 THEN RotatedSize(size, rotation) ELSE size
    IN  [size |-> IF shear THEN ShearedSize(rotated) ELSE rotated,
         ops |-> (IF rotation # 0 THEN <<"rotate">> ELSE <<>>)
                 \o (IF shear THEN <<"shear">> ELSE <<>>)]

Max(a, b) == IF a >= b THEN a ELSE b
Min(a, b) == IF a <= b THEN a ELSE b
Abs(a) == IF a >= 0 THEN a ELSE -a

\* A slip: the extra padding is a fifth of the font size, whatever the size.
PaddingUncapped(config) ==
    Max(config.stroke_width,
        Max(Abs(config.shadow_offset[1]), Abs(config.shadow_offset[2]))) + 10
    + (IF config.font_size > 50 THEN config.font_size \div 5 ELSE 0)

\* Lines 394-403: padding = base_padding + extra_padding.
Padding(config) ==
    LET base_padding ==
            Max(config.stroke_width,
                Max(Abs(config.shadow_offset[1]), Abs(config.shadow_offset[2]))) + 10
        extra_padding ==
            IF config.font_size > 50 THEN Min(config.font_size \div 5, 20) ELSE 0
    IN  base_padding + extra_padding

\* A slip: the alpha is kept in seven bits.
TextAlphaWraps(opacity) == TruncDiv(255 * opacity, 100) % 128

\* int(255 * config.opacity / 100): the quotient cut toward zero.
TextAlpha(opacity) == TruncDiv(255 * opacity, 100)

\* temp_draw.textbbox((0, 0), text, font, stroke_width): the size of the box.
\* The rasteriser's measure is a function of the text, the font and the
\* stroke: glyph stands for the side of a glyph of a font file at the size
\* asked for, the built-in font has glyphs of its own size; the stroke widens
\* the box on every side.
TextBBoxSize(text, font, stroke_width, glyph) ==
    IF text = <<>> THEN <<0, 0>>
    ELSE LET side == IF font = LoadDefault THEN 1 ELSE glyph + 1
         IN  <<Len(text) * side + 2 * stroke_width, side + 2 * stroke_width>>

\* create_text_watermark: the font chosen, the layer's size before and after
\* rotation and skew, where text and shadow are drawn, and the alpha of the
\* three inks.  shadow is <<>> when no shadow is drawn.
CreateTextWatermark(text, config, machine, glyph) ==
    LET has_chinese == HasChineseCharacters(text)
        resolved ==
            IF has_chinese
            THEN GetChineseFont(machine, config.font_family, config.font_size,
                                config.font_bold, config.font_italic)
            ELSE GetFont(machine, config.font_family, config.font_size,
                         config.font_bold, config.font_italic)
        bbox == TextBBoxSize(text, resolved.font, config.stroke_width, glyph)
        padding == Padding(config)
        wm_width == bbox[1] + padding * 2
        wm_height == bbox[2] + padding * 2
        alpha == TextAlpha(config.opacity)
        transformed == Transform(<<wm_width, wm_height>>, config.rotation,
                                 ShearApplies(has_chinese, config.font_italic))
    IN  [raised |-> resolved.raised,
         resolver |-> IF has_chinese THEN "get_chinese_font" ELSE "get_font",
         candidates |-> IF has_chinese
                        THEN ChineseFonts(config.font_family, config.font_bold,
                                          config.font_italic)
                        ELSE FontPathsToTry(config.font_family, config.font_bold,
                                            config.font_italic),
         font |-> resolved.font,
         bbox |-> bbox,
         padding |-> padding,
         unrotated |-> <<wm_width, wm_height>>,
         text_origin |-> <<padding, padding>>,
         shadow |-> IF config.shadow_offset # <<0, 0>>
                    THEN << [origin |-> <<padding + config.shadow_offset[1],
                                         padding + config.shadow_offset[2]>>,
                            alpha |-> alpha] >>
                    ELSE <<>>,
         opacity |-> config.opacity,
         fill_alpha |-> alpha,
         stroke_alpha |-> alpha,
         ops |-> transformed.ops,
         size |-> transformed.size]

\* The texts tried: empty, Latin, the two ends of the CJK block, the code
\* points next to it, mixed, and two CJK characters.
Texts ==
    { <<>>, <<65>>, <<19968>>, <<40959>>, <<19967>>, <<40960>>, <<65, 20013>>,
      <<20013, 25991>> }

\* The machines tried: no font file; one Latin and one Chinese file; the
\* first Chinese files broken and a later one good; SimSun's files only.
TextMachines ==
    { [ok |-> {}, broken |-> {}],
      [ok |-> {"C:/Windows/Fonts/arial.ttf", "C:/Windows/Fonts/ariali.ttf",
               "C:/Windows/Fonts/msyh.ttc"}, broken |-> {}],
      [ok |-> {"C:/Windows/Fonts/simkai.ttf", "C:/Windows/Fonts/times.ttf"},
       broken |-> {"C:/Windows/Fonts/msyh.ttc", "C:/Windows/Fonts/msyhbd.ttc"}],
      [ok |-> {"C:/Windows/Fonts/simsun.ttc", "C:/Windows/Fonts/simsunb.ttf"},
       broken |-> {}] }

TextFamilies == {"Arial", "SimSun", "U+5FAE U+8F6F U+96C5 U+9ED1", "Verdana"}

\* The opacities a template file may hold.
StoredOpacities == (0..100) \cup {-20, 150}

\* The configurations tried: the default one with the font and the rotation
\* varied, with the sizes, stroke and shadow varied, and with the opacity as
\* dict_to_config reads it from a mapping.
TextConfigs ==
    { [WatermarkConfig EXCEPT !.font_family = f, !.font_bold = b,
                              !.font_italic = i, !.rotation = r] :
        f \in TextFamilies, b \in BOOLEAN, i \in BOOLEAN, r \in {0, 90, 180} }
    \cup
    { [WatermarkConfig EXCEPT !.font_size = n, !.stroke_width = w,
                              !.shadow_offset = o, !.font_italic = i] :
        n \in {8, 36, 50, 51, 100, 105, 200}, w \in {0, 2, 10, 14},
        o \in { <<0, 0>>, <<2, 2>>, <<-15, 3>>, <<0, -12>> }, i \in BOOLEAN }
    \cup
    { [DictToConfig([k \in {"opacity", "shadow_offset"} |->
                        IF k = "opacity" THEN a ELSE PyList(o)])[1]
          EXCEPT !.font_italic = i] :
        a \in StoredOpacities, o \in { <<0, 0>>, <<2, 2>> }, i \in BOOLEAN }

NoTextCall ==
    [text |-> <<>>, config |-> WatermarkConfig,
     machine |-> [ok |-> {}, broken |-> {}], glyph |-> 1]

NoTextOut == CreateTextWatermark(<<>>, WatermarkConfig, [ok |-> {}, broken |-> {}], 1)

TextIdle == textCall = NoTextCall /\ textOut = NoTextOut

TextInit ==
    /\ textCall \in [text : Texts, config : TextConfigs, machine : TextMachines,
                     glyph : 1..MaxGlyph]
    /\ textOut = NoTextOut

CallCreateTextWatermark ==
    /\ pc = "call"
    /\ textOut' = CreateTextWatermark(textCall.text, textCall.config,
                                      textCall.machine, textCall.glyph)
    /\ pc' = "done"
    /\ UNCHANGED textCall

-----------------------------------------------------------------------------
(* Claims about create_text_watermark *)

TextDone == pc = "done"

\* The font files that hold CJK glyphs, by their names: YaHei, SimSun, SimHei,
\* KaiTi, FangSong, STXihei, STZhongsong.
CJKFontFiles ==
    {"C:/Windows/Fonts/msyh.ttc", "C:/Windows/Fonts/msyh.ttf",
     "C:/Windows/Fonts/MSYH.TTC", "C:/Windows/Fonts/msyhbd.ttc",
     "C:/Windows/Fonts/msyhbd.ttf", "C:/Windows/Fonts/MSYHBD.TTC",
     "C:/Windows/Fonts/simsun.ttc", "C:/Windows/Fonts/simsunb.ttf",
     "C:/Windows/Fonts/simhei.ttf", "C:/Windows/Fonts/simkai.ttf",
     "C:/Windows/Fonts/simfang.ttf", "C:/Windows/Fonts/STXIHEI.TTF",
     "C:/Windows/Fonts/STZHONGS.TTF"}

\* The families that name a CJK typeface.
CJKFamilies ==
    { f \in FontFamilies : LowerFamily(f) \in SimSunNames \cup SimHeiNames \cup YaHeiNames }

\* Some code point of the text lies in U+4E00..U+9FFF.
ContainsCJK(text) == \E i \in 1..Len(text) : text[i] \in 19968..40959

\* The CJK candidate list is used exactly for texts with a CJK code point, it
\* holds CJK-capable files only, and the font comes from it.
SeparateCJKList ==
    /\ textOut.resolver = "get_chinese_font" <=> ContainsCJK(textCall.text)
    /\ ContainsCJK(textCall.text) =>
          /\ Range(textOut.candidates) \subseteq CJKFontFiles
          /\ textOut.font.path \in Range(textOut.candidates) \cup {LoadDefault.path}
    /\ ~ContainsCJK(textCall.text) =>
          \E q \in Range(textOut.candidates) : q \notin CJKFontFiles

\* C15 (as stated): when the text contains a code point of the CJK block, and
\* only then, the font is resolved from a separate CJK-capable candidate list
\* that is tried first and does not depend on the requested font family.
C15_Original_ListIgnoresFamily ==
    TextDone =>
        /\ SeparateCJKList
        /\ ContainsCJK(textCall.text) =>
              \A f \in FontFamilies :
                  ChineseFonts(f, textCall.config.font_bold,
                               textCall.config.font_italic) = textOut.candidates

\* C15 (amended): when the text contains a code point of the CJK block, and
\* only then, the font is resolved from a separate candidate list of
\* CJK-capable files.  The list is the same for every requested family that
\* does not name a CJK typeface; a requested CJK family (YaHei, SimSun,
\* SimHei) has its own files put first.
C15_SeparateListForCJK ==
    TextDone =>
        /\ SeparateCJKList
        /\ (ContainsCJK(textCall.text) /\ textCall.config.font_family \notin CJKFamilies) =>
              \A f \in FontFamilies \ CJKFamilies :
                  ChineseFonts(f, textCall.config.font_bold,
                               textCall.config.font_italic) = textOut.candidates
        /\ (ContainsCJK(textCall.text) /\ textCall.config.font_family \in CJKFamilies) =>
              textOut.candidates[1] \in
                  RegularFiles(LowerFamily(textCall.config.font_family))
                  \cup ExactStyleFiles(LowerFamily(textCall.config.font_family),
                                       textCall.config.font_bold,
                                       textCall.config.font_italic)

\* A mixed text asked for in Arial on a machine with Arial and YaHei: the
\* YaHei file is the font.
C15_Witness ==
    /\ TextDone
    /\ textCall.text = <<65, 20013>>
    /\ textCall.config.font_family = "Arial"
    /\ "C:/Windows/Fonts/arial.ttf" \in textCall.machine.ok
    /\ textOut.font.path = "C:/Windows/Fonts/msyh.ttc"

\* Every code point of the text is CJK, and there is one.
CJKOnly(text) == text # <<>> /\ \A i \in 1..Len(text) : text[i] \in 19968..40959

C16_WitnessNoFont ==
    /\ TextDone /\ CJKOnly(textCall.text) /\ textCall.config.font_italic
    /\ textOut.font = LoadDefault
    /\ ~textOut.raised

\* The font files that are true italics, by their names.
ItalicFontFiles ==
    ExactStyleFiles("arial", TRUE, TRUE) \cup ExactStyleFiles("arial", FALSE, TRUE)
    \cup ExactStyleFiles("times new roman", TRUE, TRUE)
    \cup ExactStyleFiles("times new roman", FALSE, TRUE)
    \cup ExactStyleFiles("calibri", TRUE, TRUE)
    \cup ExactStyleFiles("calibri", FALSE, TRUE)

\* C17: the italic shear is applied to a text layer exactly when the text
\* contains CJK, italic was requested and the resolved font is not a true
\* italic; never to Latin-only text or when italic is not requested.  When
\* both rotation and shear apply, the rotation is performed first and the
\* shear on the rotated layer.
C17_ShearExactlyForItalicCJK ==
    TextDone =>
        LET sheared == \E i \in 1..Len(textOut.ops) : textOut.ops[i] = "shear"
            rotated == IF textCall.config.rotation % 180 = 0
                       THEN textOut.unrotated
                       ELSE <<textOut.unrotated[2], textOut.unrotated[1]>>
        IN  /\ sheared <=> (/\ ContainsCJK(textCall.text)
                            /\ textCall.config.font_italic
                            /\ textOut.font.path \notin ItalicFontFiles)
            /\ (sheared /\ textCall.config.rotation # 0) =>
                  /\ textOut.ops = <<"rotate", "shear">>
                  /\ textOut.size = <<rotated[1] + rotated[2] \div 5, rotated[2]>>
            /\ ~sheared => textOut.size = rotated

\* A CJK text in italics, rotated by a quarter turn: rotated, then skewed.
C17_Witness ==
    /\ TextDone
    /\ ContainsCJK(textCall.text) /\ textCall.config.font_italic
    /\ textCall.config.rotation = 90
    /\ textOut.ops = <<"rotate", "shear">>
    /\ textOut.unrotated[1] # textOut.unrotated[2]

\* A Latin text in italics resolved to a regular face: no skew.
C17_WitnessLatin ==
    /\ TextDone
    /\ ~ContainsCJK(textCall.text) /\ textCall.text # <<>>
    /\ textCall.config.font_italic
    /\ textOut.font.path \notin ItalicFontFiles
    /\ textOut.ops = <<>>

\* The text and the shadow are drawn at origins inside the layer.
OriginsInside ==
    LET Inside(o) == /\ 0 <= o[1] /\ o[1] < textOut.unrotated[1]
                     /\ 0 <= o[2] /\ o[2] < textOut.unrotated[2]
    IN  /\ Inside(textOut.text_origin)
        /\ textOut.shadow # <<>> => Inside(textOut.shadow[1].origin)
        /\ textOut.shadow # <<>> <=> textCall.config.shadow_offset # <<0, 0>>

\* max(stroke_width, |shadow_offset.x|, |shadow_offset.y|) + 10
BasePaddingClaimed ==
    LET c == textCall.config
        ax == IF c.shadow_offset[1] < 0 THEN -c.shadow_offset[1] ELSE c.shadow_offset[1]
        ay == IF c.shadow_offset[2] < 0 THEN -c.shadow_offset[2] ELSE c.shadow_offset[2]
        m == CHOOSE v \in {c.stroke_width, ax, ay} :
                \A u \in {c.stroke_width, ax, ay} : v >= u
    IN  m + 10

\* C18 (as stated): the unrotated text layer has size (bbox_width + 2*padding,
\* bbox_height + 2*padding) where padding = max(stroke_width,
\* |shadow_offset.x|, |shadow_offset.y|) + a fixed constant, increased for
\* large point sizes by 20% of the font size beyond a threshold; text and
\* shadow are drawn at origins inside the layer.
C18_Original_TwentyPercent ==
    TextDone =>
        LET padding == BasePaddingClaimed
                       + (IF textCall.config.font_size > 50
                          THEN textCall.config.font_size \div 5 ELSE 0)
        IN  /\ textOut.unrotated = <<textOut.bbox[1] + 2 * padding,
                                     textOut.bbox[2] + 2 * padding>>
            /\ OriginsInside

\* C18 (amended): the same, the increase for font sizes above 50 being 20% of
\* the font size (font_size // 5) but never more than 20.
C18_PaddedLayerSize ==
    TextDone =>
        LET fifth == textCall.config.font_size \div 5
            padding == BasePaddingClaimed
                       + (IF textCall.config.font_size > 50
                          THEN (IF fifth > 20 THEN 20 ELSE fifth) ELSE 0)
        IN  /\ textOut.unrotated = <<textOut.bbox[1] + 2 * padding,
                                     textOut.bbox[2] + 2 * padding>>
            /\ OriginsInside

\* A text at 200 points with a shadow up and to the left.
C18_Witness ==
    /\ TextDone
    /\ textCall.config.font_size = 200
    /\ textCall.config.shadow_offset = <<-15, 3>>
    /\ textOut.padding = 45
    /\ textOut.shadow # <<>> /\ textOut.shadow[1].origin = <<30, 48>>

\* The colours the blending is tried on.
BlendColours == {0, 100, 255}

\* C19: opacity monotonicity for text watermarks.  Shadow, stroke and fill get
\* the same alpha int(255*opacity/100): 0 at opacity 0, 255 at opacity 100,
\* non-decreasing in the opacity; for fixed background and watermark colours
\* the blended pixel moves monotonically toward the watermark colour as the
\* opacity goes from 0 to 100.
C19_OpacityMonotone ==
    (TextDone /\ textCall.config.opacity \in 0..100) =>
        LET a == textOut.fill_alpha
            Dist(x, y) == IF x >= y THEN x - y ELSE y - x
        IN  /\ textOut.stroke_alpha = a
            /\ textOut.shadow # <<>> => textOut.shadow[1].alpha = a
            /\ a \in 0..255
            /\ 100 * a <= 255 * textCall.config.opacity
            /\ 255 * textCall.config.opacity < 100 * (a + 1)
            /\ textCall.config.opacity = 0 => a = 0
            /\ textCall.config.opacity = 100 => a = 255
            /\ \A higher \in textCall.config.opacity..100 :
                  LET b == TextAlpha(higher)
                  IN  /\ a <= b
                      /\ \A bg \in BlendColours, fg \in BlendColours :
                            Dist(Blend8(b, bg, fg), fg) <= Dist(Blend8(a, bg, fg), fg)

\* A text with a shadow at opacity 50: the three inks have alpha 127.
C19_Witness ==
    /\ TextDone
    /\ textCall.config.opacity = 50
    /\ textOut.shadow # <<>> /\ textOut.shadow[1].alpha = 127
    /\ textOut.fill_alpha = 127 /\ textOut.stroke_alpha = 127

\* C20: opacity is clamped to the integer range 0..100.  Whatever opacity a
\* configuration carries (set directly, or loaded by dict_to_config from a
\* mapping holding a value below 0 or above 100), the opacity used for
\* rendering lies in 0..100 and the alpha derived from it lies in 0..255.
C20_OpacityClamped ==
    TextDone =>
        /\ textOut.opacity \in 0..100
        /\ textOut.fill_alpha \in 0..255
        /\ textOut.stroke_alpha \in 0..255
        /\ textOut.shadow # <<>> => textOut.shadow[1].alpha \in 0..255

-----------------------------------------------------------------------------
(* ImageProcessor.create_image_watermark called on its own *)

\* The configurations tried: the scale in tenths, opacities of the slider's
\* range and the two stored values outside it, no rotation or a quarter turn.
ImageWmConfigs ==
    { [WatermarkConfig EXCEPT !.watermark_type = "image",
                              !.scale_factor = sf, !.opacity = o, !.rotation = r] :
        sf \in {1, 10, 20}, o \in {0, 50, 99, 100, -20, 150}, r \in {0, 90} }

NoImgWm == [config |-> WatermarkConfig, wmFile |-> "missing", out |-> NoImageTrace]

ImgWmInit ==
    \E c \in ImageWmConfigs, f \in {"empty_path", "missing", "unreadable", "ok"} :
        imgWm = [config |-> IF f = "empty_path" THEN c
                            ELSE [c EXCEPT !.watermark_image_path = WmPath],
                 wmFile |-> IF f = "empty_path" THEN "missing" ELSE f,
                 out |-> NoImageTrace]

CallCreateImageWatermark ==
    /\ pc = "call"
    /\ \E t \in CreateImageWatermarkTrace(imgWm.config, imgWm.wmFile) :
          imgWm' = [imgWm EXCEPT !.out = t]
    /\ pc' = "done"

-----------------------------------------------------------------------------
(* Claims about create_image_watermark *)

\* The opacity step changed a layer: the opacity is a percentage below 100.
FadedCase ==
    /\ pc = "done"
    /\ imgWm.out.sized # NoLayer
    /\ imgWm.config.opacity \in 0..99

\* C21: for an image watermark each pixel's resulting alpha is its existing
\* alpha multiplied by opacity/100, not replaced by the global opacity: the
\* colour is kept, alpha 128 at opacity 50 ends at 64, a fully transparent
\* pixel stays transparent, and at opacity 100 every alpha is unchanged;
\* without a rotation the layer returned is that layer.
C21_AlphaMultiplied ==
    /\ FadedCase =>
          LET before == imgWm.out.sized[1]
              after == imgWm.out.faded[1]
          IN  /\ after.size = before.size
              /\ \A xy \in DOMAIN before.px :
                    /\ after.px[xy][1] = before.px[xy][1]
                    /\ after.px[xy][2] * 100 <= before.px[xy][2] * imgWm.config.opacity
                    /\ before.px[xy][2] * imgWm.config.opacity < (after.px[xy][2] + 1) * 100
                    /\ before.px[xy][2] = 0 => after.px[xy][2] = 0
                    /\ (before.px[xy][2] = 128 /\ imgWm.config.opacity = 50)
                            => after.px[xy][2] = 64
    /\ (pc = "done" /\ imgWm.config.opacity = 100) => imgWm.out.faded = imgWm.out.sized
    /\ (pc = "done" /\ imgWm.config.rotation = 0) => imgWm.out.result = imgWm.out.faded

\* A half-transparent pixel of the file came out at alpha 64 beside a
\* transparent one that stayed transparent, in the layer returned.
C21_Witness ==
    /\ FadedCase
    /\ imgWm.config.opacity = 50
    /\ imgWm.config.rotation = 0
    /\ imgWm.out.result # NoLayer
    /\ \E xy, zw \in DOMAIN imgWm.out.sized[1].px :
          /\ imgWm.out.sized[1].px[xy][2] = 128
          /\ imgWm.out.result[1].px[xy][2] = 64
          /\ imgWm.out.sized[1].px[zw][2] = 0
          /\ imgWm.out.result[1].px[zw][2] = 0

\* At opacity 100 a layer with a half-transparent pixel was returned as decoded.
C21_WitnessFull ==
    /\ pc = "done"
    /\ imgWm.config.opacity = 100
    /\ imgWm.config.rotation = 0
    /\ imgWm.out.result # NoLayer
    /\ imgWm.out.result = imgWm.out.opened
    /\ \E xy \in DOMAIN imgWm.out.result[1].px : imgWm.out.result[1].px[xy][2] = 128

\* Outside the percentages: a stored opacity above 100 leaves every alpha as
\* it is, one below 0 makes the layer transparent.
ImageOpacityOutOfRange ==
    (pc = "done" /\ imgWm.out.sized # NoLayer) =>
        /\ imgWm.config.opacity > 100 => imgWm.out.faded = imgWm.out.sized
        /\ imgWm.config.opacity < 0 =>
              \A xy \in DOMAIN imgWm.out.faded[1].px : imgWm.out.faded[1].px[xy][2] = 0

-----------------------------------------------------------------------------
(* ImageProcessor.apply_watermark with both renderers, on a given machine *)

\* The layer create_text_watermark returns, as pixels, for an unrotated and
\* unsheared text: Image.new gives a transparent layer, draw.text inks the
\* text's box, placed at (padding, padding), in the text colour and alpha.
TextLayer(config, machine, glyph) ==
    LET drawn == CreateTextWatermark(config.text, config, machine, glyph)
        Inked(v, origin, extent) == v - 1 >= origin /\ v - 1 < origin + extent
    IN  [mode |-> "RGBA", size |-> drawn.size,
         px |-> [xy \in (1..drawn.size[1]) \X (1..drawn.size[2]) |->
                    IF /\ Inked(xy[1], drawn.text_origin[1], drawn.bbox[1])
                       /\ Inked(xy[2], drawn.text_origin[2], drawn.bbox[2])
                    THEN <<config.text_color[1], drawn.fill_alpha>>
                    ELSE <<0, 0>>]]

\* A slip: the image renderer is taken whenever an image path is set.
RenderLayersByPath(config, env) ==
    IF config.watermark_image_path = <<>>
    THEN { <<TextLayer(config, env.machine, env.glyph)>> }
    ELSE { t.result : t \in { u \in CreateImageWatermarkTrace(config, env.wmFile) :
                                  u.opened \in {NoLayer, <<env.decoded>>} } }

\* apply_watermark, lines 487-490: the renderer is chosen by watermark_type
\* alone.  env is what the call finds around it: the font files of the
\* machine, the rasteriser's glyph size, what is at the image path and the
\* layer that file decodes to.
RenderLayers(config, env) ==
    IF config.watermark_type = "text"
    THEN { <<TextLayer(config, env.machine, env.glyph)>> }
    ELSE { t.result : t \in { u \in CreateImageWatermarkTrace(config, env.wmFile) :
                                  u.opened \in {NoLayer, <<env.decoded>>} } }

\* The results apply_watermark may give for a photo: whether the object
\* returned is the photo itself, and the pixels of the image returned.
ApplyResults(photo, config, env) ==
    { LET r == ApplyWatermark(<<photo>>, 1, w, config)
      IN  [same_object |-> r.result = 1, image |-> r.heap[r.result]] :
        w \in RenderLayers(config, env) }

VariantPhotos ==
    { MkImage("RGB", MaxPhoto, MaxPhoto, <<255, 255>>, <<0, 255>>),
      MkImage("RGBA", MaxPhoto, MaxPhoto, <<255, 128>>, <<0, 255>>),
      MkImage("RGB", 1, MaxPhoto, <<255, 255>>, <<128, 255>>) }

\* The text's box starts at the padding, (12, 12) for the default stroke and
\* shadow: an anchor of (-12, -12) puts its first pixels on the photo.
VariantAnchors == { <<-12, -12>>, <<0, 0>> }

\* Text configurations, each with the other configurations that differ from
\* it in watermark_image_path or scale_factor only.
TextVariantPairs ==
    UNION { LET c1 == [WatermarkConfig EXCEPT !.text = t, !.opacity = o,
                            !.position = "custom", !.custom_x = a[1], !.custom_y = a[2],
                            !.watermark_image_path = p]
            IN  { <<c1, [c1 EXCEPT !.watermark_image_path = q, !.scale_factor = sf]>> :
                    q \in {<<>>, WmPath}, sf \in {0, 10, 20} }
            : t \in { <<65>>, <<20013, 25991>> }, o \in {50, 100},
              a \in VariantAnchors, p \in {<<>>, WmPath} }

\* The values the text fields are changed to, one field or all of them.
TextFieldChanges(c) ==
    { [c EXCEPT !.text = <<20013>>], [c EXCEPT !.font_family = "SimSun"],
      [c EXCEPT !.font_size = 0], [c EXCEPT !.font_bold = TRUE],
      [c EXCEPT !.font_italic = TRUE], [c EXCEPT !.text_color = <<0, 0, 0>>],
      [c EXCEPT !.stroke_width = 10], [c EXCEPT !.stroke_color = <<9, 9, 9>>],
      [c EXCEPT !.shadow_offset = <<0, 0>>], [c EXCEPT !.shadow_color = <<9, 9, 9>>],
      [c EXCEPT !.text = <<>>, !.font_family = "", !.font_size = 0,
                !.font_bold = TRUE, !.font_italic = TRUE, !.text_color = <<0, 0, 0>>,
                !.stroke_width = 10, !.stroke_color = <<9, 9, 9>>,
                !.shadow_offset = <<0, 0>>, !.shadow_color = <<9, 9, 9>>] }

\* Image configurations, each with the configurations that differ from it in
\* text, font, colour, stroke or shadow fields only.
ImageVariantPairs ==
    UNION { LET c1 == [WatermarkConfig EXCEPT !.watermark_type = "image", !.text = <<65>>,
                            !.opacity = o, !.scale_factor = sf, !.rotation = r,
                            !.position = "custom", !.custom_x = 0, !.custom_y = 0,
                            !.watermark_image_path = p]
            IN  { <<c1, c2>> : c2 \in TextFieldChanges(c1) }
            : o \in {50, 100}, sf \in {10, 20}, r \in {0, 90}, p \in {<<>>, WmPath} }

VariantEnvs ==
    [machine : TextMachines, glyph : {MaxGlyph},
     wmFile : {"missing", "unreadable", "ok"},
     decoded : LayersOfSize(MaxWm, 1)]

NoVariant ==
    [photo |-> MkImage("RGB", 1, 1, <<0, 255>>, <<0, 255>>),
     c1 |-> [WatermarkConfig EXCEPT !.text = <<>>],
     c2 |-> [WatermarkConfig EXCEPT !.text = <<>>],
     env |-> [machine |-> [ok |-> {}, broken |-> {}], glyph |-> 1,
              wmFile |-> "missing",
              decoded |-> MkImage("RGBA", 1, 1, <<0, 255>>, <<0, 255>>)],
     out1 |-> {}, out2 |-> {}]

VariantIdle == variant = NoVariant

VariantInit ==
    \E photo \in VariantPhotos, pair \in TextVariantPairs \cup ImageVariantPairs,
       env \in VariantEnvs :
        variant = [photo |-> photo, c1 |-> pair[1], c2 |-> pair[2], env |-> env,
                   out1 |-> {}, out2 |-> {}]

\* apply_watermark is called with the first configuration, then with the
\* second, on the same photo and machine.
CallApplyWatermarkBoth ==
    /\ pc = "call"
    /\ variant' = [variant EXCEPT
                      !.out1 = ApplyResults(variant.photo, variant.c1, variant.env),
                      !.out2 = ApplyResults(variant.photo, variant.c2, variant.env)]
    /\ pc' = "done"

-----------------------------------------------------------------------------
(* Claims about the two kinds of watermark *)

\* C22: only the fields of the selected kind influence the result: two text
\* configurations that differ only in watermark_image_path or scale_factor,
\* and two image configurations that differ only in text, font, colour,
\* stroke or shadow fields, give the same apply_watermark result on the same
\* photo, and an invalid value in an inactive field causes no failure: the
\* call returns an image of the photo's size.
C22_InactiveFieldsIgnored ==
    pc = "done" =>
        /\ variant.out1 = variant.out2
        /\ variant.out2 # {}
        /\ \A r \in variant.out2 : r.image.size = variant.photo.size

\* A text configuration with an image path that does not exist and a scale
\* of zero marked the photo as the configuration without them did.
C22_Witness ==
    /\ pc = "done"
    /\ variant.c1.watermark_type = "text"
    /\ variant.c1.watermark_image_path = <<>>
    /\ variant.c2.watermark_image_path # <<>>
    /\ variant.c2.scale_factor = 0
    /\ variant.env.wmFile = "missing"
    /\ \E r \in variant.out2 : r.image # variant.photo
    /\ variant.out1 = variant.out2

\* An image configuration with every text field changed, the font size to
\* zero, pasted the same layer as the configuration it was changed from.
C22_WitnessImage ==
    /\ pc = "done"
    /\ variant.c1.watermark_type = "image"
    /\ variant.c2.font_size = 0
    /\ variant.c2.text # variant.c1.text
    /\ variant.env.wmFile = "ok"
    /\ \E r \in variant.out2 : r.image # variant.photo
    /\ variant.out1 = variant.out2

-----------------------------------------------------------------------------
(* ImageProcessor.apply_watermark applied to its own result *)

\* The photos: the small ones, and one large enough to reach the text's
\* box, which starts at the padding.
TwicePhotos ==
    VariantPhotos \cup
    { MkImage("RGB", Padding(WatermarkConfig) + MaxPhoto, Padding(WatermarkConfig) + MaxPhoto,
              <<255, 255>>, <<0, 255>>) }

TwiceConfigs ==
    { [WatermarkConfig EXCEPT !.watermark_type = t, !.text = <<65>>,
                              !.watermark_image_path = WmPath,
                              !.opacity = o, !.rotation = r,
                              !.position = a[1], !.custom_x = a[2], !.custom_y = a[3]] :
        t \in WatermarkType, o \in {50, 100}, r \in {0, 90},
        a \in { <<"custom", 0, 0>>, <<"custom", 1, 0>>, <<"bottom_right", 0, 0>> } }

TwiceEnvs ==
    [machine : { [ok |-> {"C:/Windows/Fonts/arial.ttf"}, broken |-> {}] },
     glyph : {MaxGlyph}, wmFile : {"ok", "missing"}, decoded : LayersOfSize(MaxWm, MaxWm)]

NoTwice ==
    [config |-> [WatermarkConfig EXCEPT !.text = <<>>],
     env |-> NoVariant.env, heap |-> <<>>, w1 |-> NoLayer, w2 |-> NoLayer,
     first |-> 0, second |-> 0]

TwiceIdle == twice = NoTwice

\* The photo is object 1 of the heap.
TwiceInit ==
    \E photo \in TwicePhotos, c \in TwiceConfigs, env \in TwiceEnvs :
        /\ c.watermark_type = "text" => (c.rotation = 0 /\ env.wmFile = "missing")
        /\ twice = [NoTwice EXCEPT !.config = c, !.env = env, !.heap = <<photo>>]

\* result = apply_watermark(photo, config)
ApplyOnce ==
    /\ pc = "call"
    /\ \E w \in RenderLayers(twice.config, twice.env) :
          LET r == ApplyWatermark(twice.heap, 1, w, twice.config)
          IN  twice' = [twice EXCEPT !.heap = r.heap, !.w1 = w, !.first = r.result]
    /\ pc' = "once"

\* apply_watermark(result, config): the layer is rendered again
ApplyAgain ==
    /\ pc = "once"
    /\ \E w \in RenderLayers(twice.config, twice.env) :
          LET r == ApplyWatermark(twice.heap, twice.first, w, twice.config)
          IN  twice' = [twice EXCEPT !.heap = r.heap, !.w2 = w, !.second = r.result]
    /\ pc' = "twice"

-----------------------------------------------------------------------------
(* Claims about applying the watermark twice *)

\* The configuration of the claim: full opacity, no rotation, anchored at
\* the custom point (0, 0); and a layer was rendered.
IdempotenceCase ==
    /\ pc = "twice"
    /\ twice.config.opacity = 100
    /\ twice.config.rotation = 0
    /\ twice.config.position = "custom"
    /\ twice.config.custom_x = 0
    /\ twice.config.custom_y = 0
    /\ twice.w1 # NoLayer

\* The positions of the photo under a fully opaque pixel of the layer w
\* pasted at (0, 0).
OpaqueAt(w, image) ==
    { xy \in DOMAIN image.px :
        /\ xy[1] <= w.size[1] /\ xy[2] <= w.size[2]
        /\ w.px[xy][2] = 255 }

\* C23: with opacity 100, rotation 0 and the anchor Custom(0, 0), applying
\* apply_watermark once and applying it again to its own result give
\* identical pixels at every position where the layer is fully opaque
\* (alpha 255): the paste replaces those pixels exactly with the layer's
\* colour, and the second call renders the same layer.
C23_IdempotentWhereOpaque ==
    IdempotenceCase =>
        LET once == twice.heap[twice.first]
            again == twice.heap[twice.second]
            w == twice.w1[1]
        IN  /\ twice.w2 = twice.w1
            /\ again.size = once.size
            /\ \A xy \in OpaqueAt(w, once) :
                  /\ again.px[xy] = once.px[xy]
                  /\ once.px[xy] = <<w.px[xy][1], 255>>

\* An opaque black pixel of the layer replaced a white pixel of the photo,
\* and the second application left it as it was.
C23_Witness ==
    /\ IdempotenceCase
    /\ \E xy \in OpaqueAt(twice.w1[1], twice.heap[1]) :
          /\ twice.heap[1].px[xy][1] = 255
          /\ twice.heap[twice.first].px[xy][1] = 0
          /\ twice.heap[twice.second].px[xy][1] = 0

\* The same for the text kind: the photo reaches into the text's box.
C23_WitnessText ==
    /\ IdempotenceCase
    /\ twice.config.watermark_type = "text"
    /\ \E xy \in OpaqueAt(twice.w1[1], twice.heap[1]) :
          twice.heap[twice.first].px[xy] # twice.heap[1].px[xy]

\* Under a half-transparent pixel the second application changes the
\* result again: the restriction to opaque pixels is needed.
C23_WitnessNotUnderHalfTransparent ==
    /\ IdempotenceCase
    /\ \E xy \in DOMAIN twice.heap[1].px :
          /\ xy[1] <= twice.w1[1].size[1] /\ xy[2] <= twice.w1[1].size[2]
          /\ twice.w1[1].px[xy][2] = 128
          /\ twice.heap[twice.second].px[xy] # twice.heap[twice.first].px[xy]

-----------------------------------------------------------------------------
(* ImageProcessor.load_image called on its own *)

\* The paths tried: every supported extension, in lower, upper and mixed
\* case, other extensions, no extension, a name that is only an extension,
\* and a supported extension that is not the last one.
LoadPaths ==
    { <<"x", ".", e>> : e \in {"jpg", "JPG", "jpeg", "Jpeg", "png", "PNG", "bmp", "BMP",
                                "tiff", "Tiff", "tif", "TIF", "gif", "GIF", "txt"} }
    \cup { <<"x">>, <<".", "jpg">>, <<"a", "/", ".", "png">>,
           <<"x", ".", "jpg", ".", "txt">>, <<"x", ".", "txt", ".", "PNG">> }

\* What may be at the path: a file no decoder identifies, or an image file,
\* whole or cut short, with or without an alpha band, upright or turned.
LoadFiles ==
    { [format |-> "text", data |-> <<>>] }
    \cup
    { [format |-> f, data |-> <<MkImage(m, MaxPhoto, 1, <<255, 255>>, <<0, 255>>)>>,
       truncated |-> t, orientation |-> o] :
        f \in {"JPEG", "PNG"}, m \in {"RGB", "RGBA"}, t \in BOOLEAN, o \in {1, 6} }

NoLoadCall == [file_path |-> <<>>, out |-> [opened |-> <<>>, result |-> <<>>]]

LoadedIdle == loadCall = NoLoadCall

\* The disk holds the file at the path, or nothing.
LoadInit ==
    /\ \E path \in LoadPaths :
          /\ loadCall = [NoLoadCall EXCEPT !.file_path = path]
          /\ \/ disk = << >>
             \/ \E file \in LoadFiles : disk = [q \in {path} |-> file]

CallLoadImage ==
    /\ pc = "call"
    /\ loadCall' = [loadCall EXCEPT !.out = LoadImageTrace(disk, loadCall.file_path)]
    /\ pc' = "done"
    /\ UNCHANGED disk

-----------------------------------------------------------------------------
(* Claims about load_image *)

\* The path ends in one of the supported extensions, in any case, after a
\* name that is not empty.
HasSupportedExtension(path) ==
    /\ Len(path) >= 3
    /\ path[Len(path) - 1] = "."
    /\ path[Len(path) - 2] \notin {".", "/"}
    /\ path[Len(path)] \in {"jpg", "JPG", "jpeg", "Jpeg", "png", "PNG", "bmp", "BMP",
                             "tiff", "Tiff", "tif", "TIF"}

\* No file at the path.
LoadMissing == loadCall.file_path \notin DOMAIN disk

\* The file at the path cannot be read as an image: no decoder identifies
\* it, or its data is cut short.
LoadUnreadable ==
    /\ ~LoadMissing
    /\ \/ disk[loadCall.file_path].format \notin {"JPEG", "PNG", "BMP", "TIFF"}
       \/ FileField(disk[loadCall.file_path], "truncated", FALSE)

\* C24: load_image returns no image, without opening the file, for every
\* path whose extension (compared case-insensitively) is outside {.jpg,
\* .jpeg, .png, .bmp, .tiff, .tif}, returns no image for a path with a
\* supported extension that is missing or unreadable, and otherwise returns
\* an image in RGBA mode with its pixels.
C24_LoadImageContract ==
    pc = "done" =>
        /\ ~HasSupportedExtension(loadCall.file_path) =>
                /\ loadCall.out.result = <<>>
                /\ loadCall.out.opened = <<>>
        /\ (HasSupportedExtension(loadCall.file_path) /\ (LoadMissing \/ LoadUnreadable)) =>
                loadCall.out.result = <<>>
        /\ (HasSupportedExtension(loadCall.file_path) /\ ~LoadMissing /\ ~LoadUnreadable) =>
                /\ loadCall.out.result # <<>>
                /\ loadCall.out.result[1].mode = "RGBA"
                /\ DOMAIN loadCall.out.result[1].px =
                      (1..loadCall.out.result[1].size[1]) \X (1..loadCall.out.result[1].size[2])

\* The file is cut short and its header says RGBA: nothing decodes it
\* before load_image returns.
LazyRGBACase ==
    /\ HasSupportedExtension(loadCall.file_path)
    /\ ~LoadMissing
    /\ disk[loadCall.file_path].format \in {"JPEG", "PNG", "BMP", "TIFF"}
    /\ FileField(disk[loadCall.file_path], "truncated", FALSE)
    /\ disk[loadCall.file_path].data[1].mode = "RGBA"

\* What load_image does: as claimed for every path and file but the image
\* file with an alpha band whose data is cut short, for which it returns
\* the handle Image.open gave, in RGBA mode and without pixels.
LoadImageAsBuilt ==
    /\ (pc = "done" /\ ~LazyRGBACase) =>
          /\ ~HasSupportedExtension(loadCall.file_path) =>
                  /\ loadCall.out.result = <<>>
                  /\ loadCall.out.opened = <<>>
          /\ (HasSupportedExtension(loadCall.file_path) /\ (LoadMissing \/ LoadUnreadable)) =>
                  loadCall.out.result = <<>>
          /\ (HasSupportedExtension(loadCall.file_path) /\ ~LoadMissing /\ ~LoadUnreadable) =>
                  /\ loadCall.out.result # <<>>
                  /\ loadCall.out.result[1].mode = "RGBA"
    /\ (pc = "done" /\ LazyRGBACase) =>
          /\ loadCall.out.result # <<>>
          /\ loadCall.out.result[1].px = <<>>

\* An unsupported extension on a file that would decode: not opened.
LoadWitnessUnsupported ==
    /\ pc = "done"
    /\ loadCall.file_path = <<"x", ".", "GIF">>
    /\ ~LoadMissing /\ ~LoadUnreadable
    /\ loadCall.out.opened = <<>>

\* An upper-case extension on a turned RGB photo: returned in RGBA, turned.
LoadWitnessConverted ==
    /\ pc = "done"
    /\ loadCall.file_path = <<"x", ".", "TIF">>
    /\ loadCall.out.result # <<>>
    /\ disk[loadCall.file_path].data[1].mode = "RGB"
    /\ loadCall.out.result[1].mode = "RGBA"
    /\ loadCall.out.result[1].size # disk[loadCall.file_path].data[1].size

\* batch_process skips every input for which load_image returns no image:
\* that pass of the loop adds no result and writes no file.
BatchSkipsUnloadable ==
    [][(BatchStep /\ LoadImage(disk, job.image_paths[bpIdx]) = <<>>)
          => (results' = results /\ disk' = disk /\ bpIdx' = bpIdx + 1)]_vars

-----------------------------------------------------------------------------
(* DragDropHandler: the constructor and the mechanisms it sets up *)

\* The names hasattr finds on a handler: the attributes __init__ assigns and
\* the methods of the class.
HandlerAttributes ==
    { "widget", "file_manager", "callback", "dnd_enabled",
      "setup_dragdrop", "try_tkdnd", "try_windows_native", "setup_enhanced_fallback",
      "on_tkdnd_drop", "on_windows_drop", "on_click_import", "on_hover_enter",
      "on_hover_leave", "on_drag_enter", "on_drag_leave", "_process_dropped_files" }

\* __init__ up to the call of setup_dragdrop.  children are the classes of
\* the widget's children, labels the texts of those that are labels.
NewHandler(env) ==
    [callback |-> env.callback, dnd_enabled |-> FALSE, tried |-> <<>>,
     drop_target |-> FALSE, hooked |-> FALSE, pip_install |-> FALSE,
     bindings |-> {}, cursor |-> "", labels |-> [i \in 1..Len(env.children) |-> ""]]

\* try_tkdnd: the package is required, the widget registered as a drop
\* target and three events bound; any exception gives False.
TryTkdnd(h, env) ==
    IF env.tkdnd = "ok"
    THEN [ok |-> TRUE,
          h |-> [h EXCEPT !.tried = Append(@, "tkdnd"), !.drop_target = TRUE,
                          !.bindings = @ \cup { <<"<<Drop:DND_Files>>", "on_tkdnd_drop">>,
                                                <<"<<DragEnter>>", "on_drag_enter">>,
                                                <<"<<DragLeave>>", "on_drag_leave">> },
                          !.dnd_enabled = TRUE]]
    ELSE [ok |-> FALSE, h |-> [h EXCEPT !.tried = Append(@, "tkdnd")]]

\* try_windows_native: windnd is imported, after a pip install when the
\* import fails, and the widget hooked; any exception gives False.
TryWindowsNative(h, env) ==
    LET t == [h EXCEPT !.tried = Append(@, "windows_native")]
    IN  CASE env.windnd = "ok" ->
                [ok |-> TRUE, h |-> [t EXCEPT !.hooked = TRUE, !.dnd_enabled = TRUE]]
          [] env.windnd = "installable" ->
                [ok |-> TRUE, h |-> [t EXCEPT !.pip_install = TRUE, !.hooked = TRUE,
                                              !.dnd_enabled = TRUE]]
          [] env.windnd = "unavailable" ->
                [ok |-> FALSE, h |-> [t EXCEPT !.pip_install = TRUE]]
          [] OTHER -> [ok |-> FALSE, h |-> t]

\* The first label among the children.
RECURSIVE FirstLabel(_, _)
FirstLabel(children, i) ==
    IF i > Len(children) THEN 0
    ELSE IF children[i] = "Label" THEN i
    ELSE FirstLabel(children, i + 1)

\* setup_enhanced_fallback: the widget becomes a click zone.
SetupEnhancedFallback(h, env) ==
    LET label == FirstLabel(env.children, 1)
    IN  [h EXCEPT !.tried = Append(@, "fallback"), !.cursor = "hand2",
                  !.bindings = @ \cup { <<"<Button-1>", "on_click_import">>,
                                        <<"<Enter>", "on_hover_enter">>,
                                        <<"<Leave>", "on_hover_leave">> },
                  !.labels = IF label = 0 THEN @
                             ELSE [@ EXCEPT ![label] = "Click to Import Images"]]

\* setup_dragdrop, lines 316-327
SetupDragdrop(h, env) ==
    LET tkdnd == TryTkdnd(h, env)
    IN  IF tkdnd.ok THEN tkdnd.h
        ELSE IF env.platform = "Windows"
        THEN LET native == TryWindowsNative(tkdnd.h, env)
             IN  IF native.ok THEN native.h
                 ELSE SetupEnhancedFallback(native.h, env)
        ELSE SetupEnhancedFallback(tkdnd.h, env)

\* What the constructor may find: the tkdnd package, the platform, the
\* windnd module, a callback or none, and the widget's children.
DndEnvs ==
    [tkdnd : {"ok", "no_package", "register_fails"},
     platform : {"Windows", "Linux", "Darwin"},
     windnd : {"ok", "installable", "unavailable", "hook_fails"},
     callback : BOOLEAN,
     children : { <<>>, <<"Label">>, <<"Frame", "Label", "Label">> }]

NoDnd ==
    [env |-> [tkdnd |-> "no_package", platform |-> "Linux", windnd |-> "unavailable",
              callback |-> FALSE, children |-> <<>>],
     built |-> FALSE,
     handler |-> NewHandler([callback |-> FALSE, children |-> <<>>]),
     attributes |-> {}]

DndIdle == dnd = NoDnd

DndInit == \E env \in DndEnvs : dnd = [NoDnd EXCEPT !.env = env]

\* handler = DragDropHandler(widget, file_manager, callback)
ConstructDragDropHandler ==
    /\ pc = "call"
    /\ dnd' = [dnd EXCEPT !.built = TRUE,
                          !.handler = SetupDragdrop(NewHandler(dnd.env), dnd.env),
                          !.attributes = HandlerAttributes]
    /\ pc' = "done"

-----------------------------------------------------------------------------
(* Claims about DragDropHandler *)

\* The mechanisms tried are tkdnd, then Windows-native drop (on Windows),
\* then the click fallback, up to the first that succeeded; dnd_enabled is
\* true exactly when tkdnd or the Windows hook was installed, and then the
\* fallback was not set up.
DndSetupOrder ==
    pc = "done" =>
        LET h == dnd.handler
            native == h.drop_target \/ h.hooked
        IN  /\ h.tried \in { <<"tkdnd">>, <<"tkdnd", "windows_native">>,
                              <<"tkdnd", "fallback">>,
                              <<"tkdnd", "windows_native", "fallback">> }
            /\ h.drop_target <=> h.tried = <<"tkdnd">>
            /\ h.hooked <=> h.tried = <<"tkdnd", "windows_native">>
            /\ h.dnd_enabled <=> native
            /\ ~native <=> <<"<Button-1>", "on_click_import">> \in h.bindings
            /\ ~(h.drop_target /\ h.hooked)

\* C25: constructing a DragDropHandler tries tkdnd, then Windows-native
\* drop, then the click-to-import fallback, stops at the first that
\* succeeds, and sets dnd_enabled to true exactly when a native mechanism
\* was installed; every handler provides the click fallback under the name
\* the test looks up, on_click_fallback.
C25_SetupOrderAndClickFallback ==
    /\ DndSetupOrder
    /\ pc = "done" => "on_click_fallback" \in dnd.attributes

\* tkdnd failed, the Windows hook was installed after it: the fallback was
\* not set up and dnd_enabled is true.
DndWitnessNative ==
    /\ pc = "done"
    /\ dnd.handler.tried = <<"tkdnd", "windows_native">>
    /\ dnd.handler.dnd_enabled

\* Both native mechanisms failed: the click fallback is bound, under the
\* name on_click_import.
DndWitnessFallback ==
    /\ pc = "done"
    /\ dnd.handler.tried = <<"tkdnd", "windows_native", "fallback">>
    /\ ~dnd.handler.dnd_enabled
    /\ "on_click_import" \in dnd.attributes

-----------------------------------------------------------------------------
(* FileManager: the list of imported files *)

\* The file system the file manager looks at: image files in two
\* directories, one of them inside the other, and a text file.
FsFiles ==
    { <<"a", "/", "x", ".", "jpg">>, <<"a", "/", "y", ".", "PNG">>,
      <<"a", "/", "n", ".", "txt">>, <<"a", "/", "sub", "/", "z", ".", "jpg">>,
      <<"b", ".", "tif">> }
FsDirs == { <<"a">>, <<"a", "/", "sub">> }

\* os.listdir(folder): the names in a directory.
Listdir(folder) ==
    { SubSeq(q, Len(folder) + 2, Len(q)) :
        q \in { r \in FsFiles \cup FsDirs :
                  /\ Len(r) > Len(folder) + 1
                  /\ SubSeq(r, 1, Len(folder) + 1) = folder \o <<"/">>
                  /\ RFind(r, "/") = Len(folder) + 1 } }

\* The arguments tried: the files, a path with no file, a directory; and
\* the paths a selection in the file dialog is made of.
FmPaths == FsFiles \cup { <<"a", "/", "m", ".", "jpg">>, <<"a">> }
SelectablePaths ==
    { <<"a", "/", "x", ".", "jpg">>, <<"a", "/", "y", ".", "PNG">>,
      <<"a", "/", "n", ".", "txt">>, <<"a", "/", "m", ".", "jpg">> }
FmFolders == FsDirs \cup { <<"nodir">>, <<"b", ".", "tif">> }

\* is_image_file: the extension, in lower case, is a supported one.
IsImageFile(file_path) ==
    Splitext(Lower(file_path))[2] \in SUPPORTED_INPUT_FORMATS

\* A slip: the path is appended without looking for it in the list.
ImportSingleFileUnchecked(imported_files, file_path) ==
    IF file_path \notin FsFiles \cup FsDirs THEN [files |-> imported_files, ok |-> FALSE]
    ELSE IF ~IsImageFile(file_path) THEN [files |-> imported_files, ok |-> FALSE]
    ELSE [files |-> Append(imported_files, file_path), ok |-> TRUE]

\* import_single_file: the list after the call and the value returned.
ImportSingleFile(imported_files, file_path) ==
    IF file_path \notin FsFiles \cup FsDirs THEN [files |-> imported_files, ok |-> FALSE]
    ELSE IF ~IsImageFile(file_path) THEN [files |-> imported_files, ok |-> FALSE]
    ELSE IF file_path \notin Range(imported_files)
    THEN [files |-> Append(imported_files, file_path), ok |-> TRUE]
    ELSE [files |-> imported_files, ok |-> FALSE]

RECURSIVE ImportEach(_, _, _, _)
\* The loop of import_multiple_files and import_folder from entry i on:
\* import_single_file for each path, those it accepted are collected.
ImportEach(imported_files, file_paths, i, imported) ==
    IF i > Len(file_paths) THEN [files |-> imported_files, imported |-> imported]
    ELSE LET r == ImportSingleFile(imported_files, file_paths[i])
         IN  ImportEach(r.files, file_paths, i + 1,
                        IF r.ok THEN Append(imported, file_paths[i]) ELSE imported)

ImportMultipleFiles(imported_files, file_paths) ==
    ImportEach(imported_files, file_paths, 1, <<>>)

RECURSIVE Orders(_)
\* The orders in which a set of paths may be listed.
Orders(S) ==
    IF S = {} THEN { <<>> }
    ELSE UNION { { <<x>> \o q : q \in Orders(S \ {x}) } : x \in S }

\* The file paths import_folder meets: the files of the folder (os.listdir,
\* os.path.isfile) or of the folder and the directories below (os.walk).
FolderFiles(folder_path, recursive) ==
    { q \in FsFiles :
        /\ Len(q) > Len(folder_path) + 1
        /\ SubSeq(q, 1, Len(folder_path) + 1) = folder_path \o <<"/">>
        /\ recursive \/ SubSeq(q, Len(folder_path) + 2, Len(q)) \in Listdir(folder_path) }

\* import_folder, for the order in which the directory lists its files.
ImportFolder(imported_files, folder_path, recursive, listed) ==
    IF folder_path \notin FsDirs
    THEN [files |-> imported_files, imported |-> <<>>]
    ELSE ImportEach(imported_files, listed, 1, <<>>)

\* list.remove: the first occurrence is taken out.
RemoveFirst(q, x) ==
    LET i == CHOOSE k \in 1..Len(q) : q[k] = x /\ \A m \in 1..(k - 1) : q[m] # x
    IN  SubSeq(q, 1, i - 1) \o SubSeq(q, i + 1, Len(q))

RemoveFile(imported_files, file_path) ==
    IF file_path \in Range(imported_files)
    THEN [files |-> RemoveFirst(imported_files, file_path), ok |-> TRUE]
    ELSE [files |-> imported_files, ok |-> FALSE]

\* The file manager as built, and the record of its last call: the
\* operation, the path given (to the operations that take one), the list
\* before, and what it returned.
NoFmCall == [op |-> "", paths |-> <<>>, before |-> <<>>, ok |-> FALSE, imported |-> <<>>]
NewFileManager == [imported_files |-> <<>>, last |-> NoFmCall]

FmIdle == fm = NewFileManager
FmInit == fm = NewFileManager

CallImportSingleFile ==
    /\ pc = "fm"
    /\ \E file_path \in FmPaths :
          LET r == ImportSingleFile(fm.imported_files, file_path)
          IN  fm' = [imported_files |-> r.files,
                     last |-> [op |-> "import_single_file", paths |-> <<file_path>>,
                               before |-> fm.imported_files, ok |-> r.ok,
                               imported |-> <<>>]]
    /\ UNCHANGED pc

CallImportMultipleFiles ==
    /\ pc = "fm"
    /\ \E file_paths \in SeqsUpTo(SelectablePaths, MaxSelection) :
          LET r == ImportMultipleFiles(fm.imported_files, file_paths)
          IN  fm' = [imported_files |-> r.files,
                     last |-> [op |-> "import_multiple_files", paths |-> <<>>,
                               before |-> fm.imported_files, ok |-> r.imported # <<>>,
                               imported |-> r.imported]]
    /\ UNCHANGED pc

CallImportFolder ==
    /\ pc = "fm"
    /\ \E folder_path \in FmFolders, recursive \in BOOLEAN :
          \E listed \in Orders(FolderFiles(folder_path, recursive)) :
             LET r == ImportFolder(fm.imported_files, folder_path, recursive, listed)
             IN  fm' = [imported_files |-> r.files,
                        last |-> [op |-> "import_folder", paths |-> <<>>,
                                  before |-> fm.imported_files, ok |-> r.imported # <<>>,
                                  imported |-> r.imported]]
    /\ UNCHANGED pc

CallRemoveFile ==
    /\ pc = "fm"
    /\ \E file_path \in FmPaths :
          LET r == RemoveFile(fm.imported_files, file_path)
          IN  fm' = [imported_files |-> r.files,
                     last |-> [op |-> "remove_file", paths |-> <<file_path>>,
                               before |-> fm.imported_files, ok |-> r.ok,
                               imported |-> <<>>]]
    /\ UNCHANGED pc

CallClearAllFiles ==
    /\ pc = "fm"
    /\ fm' = [imported_files |-> <<>>,
               last |-> [op |-> "clear_all_files", paths |-> <<>>,
                         before |-> fm.imported_files, ok |-> TRUE, imported |-> <<>>]]
    /\ UNCHANGED pc

-----------------------------------------------------------------------------
(* Claims about the list of imported files *)

NoPathTwice(q) == \A i, k \in 1..Len(q) : q[i] = q[k] => i = k

\* C26: after any sequence of import_single_file, import_multiple_files,
\* import_folder, remove_file and clear_all_files, imported_files contains
\* no path twice; an import that returns False (nonexistent path,
\* unsupported extension, or already imported) and a remove_file that
\* returns False leave the list unchanged, and every successful import
\* appends the path at the end.
C26_ImportedFilesDistinct ==
    LET last == fm.last
        files == fm.imported_files
    IN  /\ NoPathTwice(files)
        /\ last.op = "import_single_file" =>
              /\ last.ok <=> /\ last.paths[1] \in FsFiles
                             /\ last.paths[1] # <<"a", "/", "n", ".", "txt">>
                             /\ last.paths[1] \notin Range(last.before)
              /\ ~last.ok => files = last.before
              /\ last.ok => files = Append(last.before, last.paths[1])
        /\ last.op \in {"import_multiple_files", "import_folder"} =>
              /\ files = last.before \o last.imported
              /\ Range(last.imported) \cap Range(last.before) = {}
        /\ (last.op = "remove_file" /\ ~last.ok) => files = last.before
        /\ (last.op = "remove_file" /\ last.ok) =>
              /\ Range(files) = Range(last.before) \ {last.paths[1]}
              /\ Len(files) = Len(last.before) - 1
        /\ last.op = "clear_all_files" => files = <<>>

\* A path already in a list of three was given again: import_single_file
\* returned False and the list is as it was.
C26_Witness ==
    /\ fm.last.op = "import_single_file"
    /\ ~fm.last.ok
    /\ fm.last.paths[1] \in Range(fm.last.before)
    /\ Len(fm.last.before) = 3
    /\ fm.imported_files = fm.last.before

\* A selection added one path to a list of two, at the end.
C26_WitnessSelection ==
    /\ fm.last.op = "import_multiple_files"
    /\ Len(fm.last.before) = 2
    /\ Len(fm.last.imported) = 1
    /\ fm.imported_files = Append(fm.last.before, fm.last.imported[1])

\* A folder was imported with the directories below it when one of its
\* files was in the list already.
C26_WitnessFolder ==
    /\ fm.last.op = "import_folder"
    /\ Len(fm.last.before) = 1
    /\ Len(fm.last.imported) = 2
    /\ Len(fm.imported_files) = 3

-----------------------------------------------------------------------------
(* Claims about the output paths of one batch *)

\* The files on disk that the returned list names.
BatchFilesWritten ==
    { q \in DOMAIN disk : \E i \in 1..Len(results) : results[i] = q }

\* Every save so far met no failure.
BatchAllSaved ==
    \A i \in 1..Len(attempted) : attempted[i].proc = "ok" /\ attempted[i].io = "ok"

\* C27: in one batch_process call over pairwise distinct input paths the
\* output paths written are pairwise distinct, so no output of the batch is
\* overwritten by a later input of the same batch and the number of files
\* written equals the length of the returned list, also for inputs that
\* share a stem, such as a/x.jpg and b/x.PNG.
C27_BatchOutputsDistinct ==
    (pc \in {"loop", "returned"} /\ NoPathTwice(job.image_paths)) =>
        /\ NoPathTwice(results)
        /\ BatchAllSaved => Cardinality(BatchFilesWritten) = Len(results)

\* The stem of an input: its file name without the last extension.
Stem(path) == Splitext(Basename(path))[1]

\* What the batch does guarantee: two outputs of one batch collide only when
\* two of its inputs share a stem.
BatchCollisionNeedsSharedStem ==
    (pc \in {"loop", "returned"} /\ ~NoPathTwice(results)) =>
        \E i, k \in 1..Len(job.image_paths) :
            /\ i # k
            /\ Stem(job.image_paths[i]) = Stem(job.image_paths[k])

\* Two distinct inputs that share a stem were both saved, to one path.
BatchWitnessCollision ==
    /\ pc = "returned"
    /\ NoPathTwice(job.image_paths)
    /\ Len(results) = 2
    /\ results[1] = results[2]
    /\ BatchAllSaved
    /\ Cardinality(BatchFilesWritten) = 1

-----------------------------------------------------------------------------
(* The paths of an export: validate_output_directory, check_file_conflicts,
   batch_process *)

\* Photos imported by a relative and by an absolute path.
ExportSources ==
    { <<"a", "/", "x", ".", "jpg">>, <<"/", "w", "/", "b", "/", "x", ".", "PNG">> }

\* Output directories: apart from the photos, and a photo's folder written
\* in several ways.
ExportDirs ==
    { <<"out">>, <<"a">>, <<"/", "w", "/", "a">>, <<"a", "/", "..", "/", "b">>,
      <<"b", "/">> }

\* What the prefix and suffix fields may hold: any text.
ExportPrefixes ==
    { <<>>, <<"p_">>, <<"/", "w", "/", "a", "/">>, <<"..", "/", "a", "/">> }
ExportSuffixes == { <<>>, <<"_wm">> }

NoExpo ==
    [imported_files |-> <<>>, output_directory |-> <<>>, prefix |-> <<>>,
     suffix |-> <<>>, output_format |-> "JPEG", op |-> "none", valid |-> FALSE,
     tested |-> <<>>, written |-> <<>>, conflicts |-> {}, overwritten |-> {}]

ExpoIdle == expo = NoExpo

ExpoInit ==
    \E files \in SeqsUpTo(ExportSources, MaxSelection) \ {<<>>},
       dir \in ExportDirs, prefix \in ExportPrefixes, suffix \in ExportSuffixes,
       f \in FormatStrings :
        expo = [NoExpo EXCEPT !.imported_files = files, !.output_directory = dir,
                              !.prefix = prefix, !.suffix = suffix,
                              !.output_format = f]

\* check_file_conflicts, lines 237-240: the path it tests for an input.
ConflictOutputPath(output_dir, input_file, prefix, suffix, output_format) ==
    PathJoin(output_dir,
             GenerateOutputFilename(input_file, prefix, suffix, output_format))

\* batch_process, lines 571-581: the path it writes for an input.
BatchOutputPath(output_dir, image_path, prefix, suffix, output_format) ==
    PathJoin(output_dir,
             BatchNewFilename(image_path, prefix, suffix, output_format))

\* The paths tested for the inputs, in order.
PathsTested(e) ==
    [k \in 1..Len(e.imported_files) |->
        ConflictOutputPath(e.output_directory, e.imported_files[k], e.prefix,
                           e.suffix, e.output_format)]

\* The paths written for the inputs, in order, when each loads and saves.
PathsWritten(e) ==
    [k \in 1..Len(e.imported_files) |->
        BatchOutputPath(e.output_directory, e.imported_files[k], e.prefix,
                        e.suffix, e.output_format)]

\* check_file_conflicts and then batch_process, called with the same
\* arguments; existing is the set of files there before the two calls.
CheckThenBatch ==
    /\ pc = "call"
    /\ LET tested == PathsTested(expo)
           written == PathsWritten(expo)
       IN  \E existing \in SUBSET (Range(tested) \cup Range(written)) :
              expo' = [expo EXCEPT
                  !.op = "check_then_batch",
                  !.tested = tested,
                  !.written = written,
                  !.conflicts = Range(tested) \cap existing,
                  !.overwritten = Range(written) \cap existing]
    /\ pc' = "done"

\* export_all_images as far as paths go: the directory is validated, the
\* output paths are tested, the user is asked when some exist (answer), and
\* the batch writes.
ExportAllPaths ==
    /\ pc = "call"
    /\ LET valid == ValidateOutputDirectory(expo.imported_files, TRUE,
                                            expo.output_directory)
           tested == PathsTested(expo)
           written == PathsWritten(expo)
       IN  \E existing \in SUBSET (Range(tested) \cup Range(written)),
              answer \in BOOLEAN :
              LET conflicts == Range(tested) \cap existing
              IN  IF ~valid
                  THEN /\ existing = {} /\ answer
                       /\ expo' = [expo EXCEPT !.op = "export_all_invalid"]
                  ELSE IF conflicts # {} /\ ~answer
                  THEN expo' = [expo EXCEPT !.op = "export_all_declined",
                                            !.valid = TRUE,
                                            !.tested = tested,
                                            !.conflicts = conflicts]
                  ELSE /\ conflicts = {} => answer
                       /\ expo' = [expo EXCEPT
                              !.op = "export_all",
                              !.valid = TRUE,
                              !.tested = tested,
                              !.written = written,
                              !.conflicts = conflicts,
                              !.overwritten = Range(written) \cap existing]
    /\ pc' = "done"

-----------------------------------------------------------------------------
(* Claims about the paths of an export *)

\* The batch has written over an imported photo.
SourceOverwritten ==
    \E i \in 1..Len(expo.written), k \in 1..Len(expo.imported_files) :
        Abspath(expo.written[i]) = Abspath(expo.imported_files[k])

\* C28: once validate_output_directory has accepted the output directory with
\* prevent_overwrite on, no output path the export produces for an imported
\* file, with any prefix, suffix and format, is the path of an imported
\* source file: an export never overwrites a source photo.
C28_ExportKeepsSources ==
    expo.op = "export_all" => ~SourceOverwritten

\* What the validation does guarantee: with a prefix and a suffix that hold
\* no path separator, no output of an accepted export is an imported photo.
ExportKeepsSourcesWithPlainNames ==
    (/\ expo.op = "export_all"
     /\ "/" \notin Range(expo.prefix)
     /\ "/" \notin Range(expo.suffix)) => ~SourceOverwritten

\* An export with a plain prefix went through for photos of two folders.
ExportWitnessPlain ==
    /\ expo.op = "export_all"
    /\ expo.prefix = <<"p_">>
    /\ Len(expo.written) = 2
    /\ expo.imported_files[1] # expo.imported_files[2]

\* An export was refused because a photo lies in the output directory, which
\* was not written the way the photo's path is.
ExportWitnessRefused ==
    /\ expo.op = "export_all_invalid"
    /\ expo.output_directory = <<"a", "/", "..", "/", "b">>

C29_WitnessAbsolutePrefix ==
    /\ expo.op = "check_then_batch"
    /\ expo.prefix = <<"/", "w", "/", "a", "/">>
    /\ expo.output_directory = <<"out">>
    /\ expo.written[1] = <<"/", "w", "/", "a", "/", "x", ".", "png">>

-----------------------------------------------------------------------------
(* TemplateManager.save_template, delete_template, import_template: the
   dictionary of templates under failing writes *)

MaxCounter == 2

\* Template names as code points: the names given by the user, and those
\* import_template makes of them, f"{original_name}_{counter}".
GivenNames == { <<"t1">>, <<"t2">> }
Renamed(original_name, counter) == original_name \o <<"_", counter>>
SetNames == GivenNames \cup { Renamed(<<"t1">>, c) : c \in 1..MaxCounter }

RECURSIVE FreeName(_, _, _, _)
\* The while loop of import_template: the first of name, original_name_1,
\* original_name_2, ... that is not a key of the dictionary.
FreeName(templates, name, original_name, counter) ==
    IF name \in DOMAIN templates /\ templates[name] # <<>>
    THEN FreeName(templates, Renamed(original_name, counter), original_name,
                  counter + 1)
    ELSE name

\* The files import_template may be given: none that can be read as JSON,
\* and JSON objects with some of the keys name and config.
ImportFiles ==
    { <<>> } \cup
    { << [keys |-> ks, name |-> <<"t1">>, description |-> "",
          config |-> JsonRoundTrip(ConfigToDict(TextConfigVaried)),
          created_at |-> "then"] >> :
        ks \in { {"name", "config"}, {"name"}, {"config"} } }

\* delete_template: a name that is there is removed and the dictionary is
\* written; the return value is that of the write.  False for a name that is
\* not there.
DeleteTemplate(m, name, io) ==
    IF m.templates[name] # <<>>
    THEN [tm |-> SaveTemplatesToFile([m EXCEPT !.templates[name] = <<>>], io),
          ok |-> io = "ok"]
    ELSE [tm |-> m, ok |-> FALSE]

\* import_template: None (<<>>) when the file cannot be read or lacks name or
\* config; otherwise the template is stored under the first free name, the
\* dictionary is written, and the name is returned when the write succeeded.
ImportTemplate(m, file, io) ==
    IF file = <<>> \/ ~({"name", "config"} \subseteq file[1].keys)
    THEN [tm |-> m, name |-> <<>>]
    ELSE LET original_name == file[1].name
             name == FreeName(m.templates, original_name, original_name, 1)
             template_data == [name |-> name,
                               description |-> file[1].description,
                               config |-> file[1].config,
                               created_at |-> file[1].created_at]
             put == [m EXCEPT !.templates[name] = <<template_data>>]
         IN  [tm |-> SaveTemplatesToFile(put, io),
              name |-> IF io = "ok" THEN <<name>> ELSE <<>>]

\* A manager with no templates over the names of this part.
TmSetEmpty ==
    [templates |-> [n \in SetNames |-> <<>>],
     file |-> [state |-> "absent", content |-> NoTemplates]]

TmSetInit ==
    /\ tm = TmSetEmpty
    /\ tmCall = [op |-> "none", name |-> <<>>, io |-> "ok"]
    /\ tmOut = [ok |-> FALSE, name |-> <<>>]

DoSaveTemplate ==
    /\ pc = "tm"
    /\ \E name \in GivenNames, io \in IoOutcomes :
          LET saved == SaveTemplate(tm, name, WatermarkConfig, "", io)
          IN  /\ tm' = saved.tm
              /\ tmCall' = [op |-> "save_template", name |-> name, io |-> io]
              /\ tmOut' = [ok |-> saved.ok, name |-> <<>>]
    /\ UNCHANGED pc

DoDeleteTemplate ==
    /\ pc = "tm"
    /\ \E name \in SetNames, io \in IoOutcomes :
          LET deleted == DeleteTemplate(tm, name, io)
          IN  /\ tm.templates[name] = <<>> => io = "ok"
              /\ tm' = deleted.tm
              /\ tmCall' = [op |-> "delete_template", name |-> name, io |-> io]
              /\ tmOut' = [ok |-> deleted.ok, name |-> <<>>]
    /\ UNCHANGED pc

\* The counter of import_template is followed up to MaxCounter.
DoImportTemplate ==
    /\ pc = "tm"
    /\ \E file \in ImportFiles, io \in IoOutcomes :
          LET imported == ImportTemplate(tm, file, io)
              stored == file # <<>> /\ {"name", "config"} \subseteq file[1].keys
          IN  /\ ~stored => io = "ok"
              /\ stored => FreeName(tm.templates, file[1].name, file[1].name, 1)
                              \in SetNames
              /\ tm' = imported.tm
              /\ tmCall' = [op |-> "import_template",
                            name |-> IF file = <<>> \/ "name" \notin file[1].keys
                                     THEN <<>> ELSE file[1].name,
                            io |-> io]
              /\ tmOut' = [ok |-> imported.name # <<>>, name |-> imported.name]
    /\ UNCHANGED pc

-----------------------------------------------------------------------------
(* Claims about the dictionary of templates *)

\* The call of this step told its caller that it failed.
FailedCall ==
    /\ tmCall'.op \in {"save_template", "delete_template", "import_template"}
    /\ ~tmOut'.ok

\* import_template has kept every template that was there.
ImportKeepsTemplates ==
    tmCall'.op = "import_template" =>
        /\ \A n \in SetNames : tm.templates[n] # <<>> => tm'.templates[n] = tm.templates[n]
        /\ tmOut'.name # <<>> =>
              /\ tm.templates[tmOut'.name[1]] = <<>>
              /\ tm'.templates[tmOut'.name[1]] # <<>>

\* C30: TemplateManager keeps its in-memory template set unchanged on
\* failure: whenever save_template or delete_template returns False, or
\* import_template returns None (also when writing templates.json fails), the
\* set of template names and their stored configs is the same as before the
\* call; and import_template never replaces an existing template: it stores
\* the imported one under a name not previously in use.
C30_TemplatesUnchangedOnFailure ==
    [][/\ FailedCall => tm'.templates = tm.templates
       /\ ImportKeepsTemplates]_vars

\* What holds: a call that fails without having reached the write leaves the
\* dictionary as it was, and import_template replaces no template.
TemplatesUnchangedUnlessWriteFailed ==
    [][/\ (FailedCall /\ tmCall'.io = "ok") => tm'.templates = tm.templates
       /\ ImportKeepsTemplates]_vars

\* A template was imported while its name and the first renamed one were
\* taken: it went under the second, and the one saved first is as it was.
TemplateWitnessRenamed ==
    /\ tmCall.op = "import_template"
    /\ tmOut.name = <<Renamed(<<"t1">>, 2)>>
    /\ tm.templates[<<"t1">>] # <<>>
    /\ tm.templates[<<"t1">>][1].config = ConfigToDict(WatermarkConfig)
    /\ tm.templates[Renamed(<<"t1">>, 1)] # <<>>

\* save_template returned False and the template is in the dictionary.
TemplateWitnessFailedSave ==
    /\ tmCall.op = "save_template"
    /\ tmCall.io = "fail_early"
    /\ ~tmOut.ok
    /\ tm.templates[tmCall.name] # <<>>
    /\ tm.file.state = "absent"

\* delete_template returned False for a name that was not there.
TemplateWitnessUnknownDelete ==
    /\ tmCall.op = "delete_template"
    /\ tmCall.io = "ok"
    /\ ~tmOut.ok

-----------------------------------------------------------------------------
(* Specifications *)

\* The parts of the program a specification does not exercise stay as built.
ImgWmIdle == imgWm = NoImgWm
RestIdle ==
    ImgWmIdle /\ VariantIdle /\ TwiceIdle /\ LoadedIdle /\ DndIdle /\ FmIdle /\ ExpoIdle
FirstIdle ==
    PosIdle /\ ApplyIdle /\ DiskIdle /\ SaveIdle /\ NameIdle /\ BatchIdle /\ GuiIdle
            /\ TemplateIdle /\ FontIdle /\ TextIdle

\* calculate_position applied to every input of the bounds
SpecPosInit ==
    pc = "call" /\ PosInit /\ ApplyIdle /\ DiskIdle /\ SaveIdle /\ NameIdle
                /\ BatchIdle /\ GuiIdle /\ TemplateIdle /\ FontIdle /\ TextIdle /\ RestIdle
SpecPosNext ==
    CallCalculatePosition
        /\ UNCHANGED <<applyVars, disk, saveVars, nameVars, batchVars, guiVars, templateVars, fontVars, textVars, restVars>>
SpecPos == SpecPosInit /\ [][SpecPosNext]_vars

\* apply_watermark applied to every photo, configuration and watermark file
SpecApplyInit ==
    pc = "call" /\ PosIdle /\ ApplyInit /\ DiskIdle /\ SaveIdle /\ NameIdle
                /\ BatchIdle /\ GuiIdle /\ TemplateIdle /\ FontIdle /\ TextIdle /\ RestIdle
SpecApplyNext ==
    CallApplyWatermark
        /\ UNCHANGED <<posVars, disk, saveVars, nameVars, batchVars, guiVars, templateVars, fontVars, textVars, restVars>>
SpecApply == SpecApplyInit /\ [][SpecApplyNext]_vars

\* save_image applied to every image, format and outcome of the file system
SpecSaveInit ==
    pc = "call" /\ PosIdle /\ ApplyIdle /\ SaveInit /\ NameIdle
                /\ BatchIdle /\ GuiIdle /\ TemplateIdle /\ FontIdle /\ TextIdle /\ RestIdle
SpecSaveNext ==
    CallSaveImage /\ UNCHANGED <<posVars, applyVars, nameVars, batchVars, guiVars, templateVars, fontVars, textVars, restVars>>
SpecSave == SpecSaveInit /\ [][SpecSaveNext]_vars

\* the two builders of the output file name applied to every path
SpecNameInit ==
    pc = "call" /\ PosIdle /\ ApplyIdle /\ DiskIdle /\ SaveIdle /\ NameInit
                /\ BatchIdle /\ GuiIdle /\ TemplateIdle /\ FontIdle /\ TextIdle /\ RestIdle
SpecNameNext ==
    CallGenerateNames
        /\ UNCHANGED <<posVars, applyVars, disk, saveVars, batchVars, guiVars, templateVars, fontVars, textVars, restVars>>
SpecName == SpecNameInit /\ [][SpecNameNext]_vars

\* batch_process run on every job, one loop pass at a time
SpecBatchInit ==
    pc = "loop" /\ PosIdle /\ ApplyIdle /\ SaveIdle /\ NameIdle
                /\ BatchInit /\ GuiIdle /\ TemplateIdle /\ FontIdle /\ TextIdle /\ RestIdle
SpecBatchNext ==
    \/ BatchStep /\ UNCHANGED <<posVars, applyVars, saveVars, nameVars, guiVars, templateVars, fontVars, textVars, restVars>>
    \/ BatchReturn /\ UNCHANGED <<posVars, applyVars, saveVars, nameVars, guiVars, templateVars, fontVars, textVars, restVars>>
SpecBatch == SpecBatchInit /\ [][SpecBatchNext]_vars

\* the window: selecting images, changing the export settings, exporting
SpecGuiInit ==
    pc = "gui" /\ PosIdle /\ ApplyIdle /\ SaveIdle /\ NameIdle /\ BatchIdle /\ GuiInit
                /\ TemplateIdle /\ FontIdle /\ TextIdle /\ RestIdle
SpecGuiNext ==
    \/ SelectImage /\ UNCHANGED <<pc, posVars, applyVars, saveVars, nameVars, batchVars, templateVars, fontVars, textVars, restVars>>
    \/ SetExportOptions
            /\ UNCHANGED <<pc, posVars, applyVars, saveVars, nameVars, batchVars, templateVars, fontVars, textVars, restVars>>
    \/ ExportCurrentImage
            /\ UNCHANGED <<pc, posVars, applyVars, saveVars, nameVars, batchVars, templateVars, fontVars, textVars, restVars>>
    \/ ExportAllImages
            /\ UNCHANGED <<pc, posVars, applyVars, saveVars, nameVars, batchVars, templateVars, fontVars, textVars, restVars>>
SpecGui == SpecGuiInit /\ [][SpecGuiNext]_vars

\* dict_to_config applied to the mappings of the configurations, and the
\* template manager saving, loading and being started again
SpecTemplateInit ==
    PosIdle /\ ApplyIdle /\ DiskIdle /\ SaveIdle /\ NameIdle /\ BatchIdle /\ GuiIdle
            /\ TemplateInit /\ FontIdle /\ TextIdle /\ RestIdle
SpecTemplateNext ==
    \/ CallDictToConfig
          /\ UNCHANGED <<posVars, applyVars, disk, saveVars, nameVars, batchVars, guiVars, fontVars, textVars, restVars>>
    \/ CallSaveTemplate
          /\ UNCHANGED <<posVars, applyVars, disk, saveVars, nameVars, batchVars, guiVars, fontVars, textVars, restVars>>
    \/ CallLoadTemplate
          /\ UNCHANGED <<posVars, applyVars, disk, saveVars, nameVars, batchVars, guiVars, fontVars, textVars, restVars>>
    \/ RestartTemplateManager
          /\ UNCHANGED <<posVars, applyVars, disk, saveVars, nameVars, batchVars, guiVars, fontVars, textVars, restVars>>
SpecTemplate == SpecTemplateInit /\ [][SpecTemplateNext]_vars

\* get_font and get_chinese_font called for every family, style and machine
SpecFontInit ==
    pc = "call" /\ PosIdle /\ ApplyIdle /\ DiskIdle /\ SaveIdle /\ NameIdle
                /\ BatchIdle /\ GuiIdle /\ TemplateIdle /\ FontInit /\ TextIdle /\ RestIdle
SpecFontNext ==
    \/ CallGetFont
          /\ UNCHANGED <<posVars, applyVars, disk, saveVars, nameVars, batchVars,
                         guiVars, templateVars, textVars, restVars>>
    \/ CallGetChineseFont
          /\ UNCHANGED <<posVars, applyVars, disk, saveVars, nameVars, batchVars,
                         guiVars, templateVars, textVars, restVars>>
SpecFont == SpecFontInit /\ [][SpecFontNext]_vars

\* create_text_watermark called for every text, configuration and machine
SpecTextInit ==
    pc = "call" /\ PosIdle /\ ApplyIdle /\ DiskIdle /\ SaveIdle /\ NameIdle
                /\ BatchIdle /\ GuiIdle /\ TemplateIdle /\ FontIdle /\ TextInit /\ RestIdle
SpecTextNext ==
    CallCreateTextWatermark
        /\ UNCHANGED <<posVars, applyVars, disk, saveVars, nameVars, batchVars,
                       guiVars, templateVars, fontVars, restVars>>
SpecText == SpecTextInit /\ [][SpecTextNext]_vars

\* create_image_watermark called for every configuration and watermark file
SpecImageWmInit ==
    pc = "call" /\ FirstIdle /\ ImgWmInit /\ VariantIdle /\ TwiceIdle /\ LoadedIdle
                /\ DndIdle /\ FmIdle /\ ExpoIdle
SpecImageWmNext ==
    CallCreateImageWatermark /\ UNCHANGED <<firstVars, variant, twice, loadCall, dnd, fm, expo>>
SpecImageWm == SpecImageWmInit /\ [][SpecImageWmNext]_vars

\* apply_watermark called with pairs of configurations that differ in the
\* fields of the other kind
SpecVariantInit ==
    pc = "call" /\ FirstIdle /\ ImgWmIdle /\ VariantInit /\ TwiceIdle /\ LoadedIdle
                /\ DndIdle /\ FmIdle /\ ExpoIdle
SpecVariantNext ==
    CallApplyWatermarkBoth /\ UNCHANGED <<firstVars, imgWm, twice, loadCall, dnd, fm, expo>>
SpecVariant == SpecVariantInit /\ [][SpecVariantNext]_vars

\* apply_watermark applied to a photo and then to the image it returned
SpecTwiceInit ==
    pc = "call" /\ FirstIdle /\ ImgWmIdle /\ VariantIdle /\ TwiceInit /\ LoadedIdle
                /\ DndIdle /\ FmIdle /\ ExpoIdle
SpecTwiceNext ==
    \/ ApplyOnce /\ UNCHANGED <<firstVars, imgWm, variant, loadCall, dnd, fm, expo>>
    \/ ApplyAgain /\ UNCHANGED <<firstVars, imgWm, variant, loadCall, dnd, fm, expo>>
SpecTwice == SpecTwiceInit /\ [][SpecTwiceNext]_vars

\* load_image called for every path and every file that may be there
SpecLoadInit ==
    pc = "call" /\ PosIdle /\ ApplyIdle /\ SaveIdle /\ NameIdle /\ BatchIdle /\ GuiIdle
                /\ TemplateIdle /\ FontIdle /\ TextIdle
                /\ ImgWmIdle /\ VariantIdle /\ TwiceIdle /\ LoadInit /\ DndIdle /\ FmIdle /\ ExpoIdle
SpecLoadNext ==
    CallLoadImage /\ UNCHANGED <<posVars, applyVars, saveVars, nameVars, batchVars, guiVars,
                                 templateVars, fontVars, textVars,
                                 imgWm, variant, twice, dnd, fm, expo>>
SpecLoad == SpecLoadInit /\ [][SpecLoadNext]_vars

\* a DragDropHandler constructed in every environment
SpecDndInit ==
    pc = "call" /\ FirstIdle /\ ImgWmIdle /\ VariantIdle /\ TwiceIdle /\ LoadedIdle
                /\ DndInit /\ FmIdle /\ ExpoIdle
SpecDndNext ==
    ConstructDragDropHandler /\ UNCHANGED <<firstVars, imgWm, variant, twice, loadCall, fm, expo>>
SpecDnd == SpecDndInit /\ [][SpecDndNext]_vars

\* the file manager under every sequence of imports and removals
SpecFilesInit ==
    pc = "fm" /\ FirstIdle /\ ImgWmIdle /\ VariantIdle /\ TwiceIdle /\ LoadedIdle
              /\ DndIdle /\ FmInit /\ ExpoIdle
SpecFilesNext ==
    \/ CallImportSingleFile /\ UNCHANGED <<firstVars, imgWm, variant, twice, loadCall, dnd, expo>>
    \/ CallImportMultipleFiles /\ UNCHANGED <<firstVars, imgWm, variant, twice, loadCall, dnd, expo>>
    \/ CallImportFolder /\ UNCHANGED <<firstVars, imgWm, variant, twice, loadCall, dnd, expo>>
    \/ CallRemoveFile /\ UNCHANGED <<firstVars, imgWm, variant, twice, loadCall, dnd, expo>>
    \/ CallClearAllFiles /\ UNCHANGED <<firstVars, imgWm, variant, twice, loadCall, dnd, expo>>
SpecFiles == SpecFilesInit /\ [][SpecFilesNext]_vars

\* the paths of an export for every setting of the export options
SpecExportInit == pc = "call" /\ FirstIdle /\ ImgWmIdle /\ VariantIdle /\ TwiceIdle
                              /\ LoadedIdle /\ DndIdle /\ FmIdle /\ ExpoInit
SpecExportNext ==
    \/ CheckThenBatch /\ UNCHANGED <<firstVars, imgWm, variant, twice, loadCall, dnd, fm>>
    \/ ExportAllPaths /\ UNCHANGED <<firstVars, imgWm, variant, twice, loadCall, dnd, fm>>
SpecExport == SpecExportInit /\ [][SpecExportNext]_vars

\* the dictionary of templates under saves, deletions and imports whose
\* writes may fail
SpecTemplateSetInit ==
    pc = "tm" /\ PosIdle /\ ApplyIdle /\ DiskIdle /\ SaveIdle /\ NameIdle /\ BatchIdle
              /\ GuiIdle /\ TmSetInit /\ FontIdle /\ TextIdle /\ RestIdle
SpecTemplateSetNext ==
    \/ DoSaveTemplate
          /\ UNCHANGED <<posVars, applyVars, disk, saveVars, nameVars, batchVars, guiVars, fontVars, textVars, restVars>>
    \/ DoDeleteTemplate
          /\ UNCHANGED <<posVars, applyVars, disk, saveVars, nameVars, batchVars, guiVars, fontVars, textVars, restVars>>
    \/ DoImportTemplate
          /\ UNCHANGED <<posVars, applyVars, disk, saveVars, nameVars, batchVars, guiVars, fontVars, textVars, restVars>>
SpecTemplateSet == SpecTemplateSetInit /\ [][SpecTemplateSetNext]_vars

=============================================================================
